---- MODULE Spec2Model ----
(***************************************************************************)
(* Session-matching and signalling core of the VKYC backend                *)
(* (backend/main.py): the ConnectionManager (connection registry,          *)
(* assignment table, waiting set, registry lock), the customer and agent   *)
(* WebSocket handlers, the liveness sweep and the session expiry timers.   *)
(*                                                                         *)
(* Every coroutine is a task with a position (pc).  One step of the model  *)
(* is the code a task runs between two suspension points: an awaited       *)
(* websocket send or receive, a sleep, or an acquire of the registry lock  *)
(* that finds it taken.  An acquire that finds the lock free does not      *)
(* suspend (asyncio.Lock), so it is part of the step that reaches it.      *)
(***************************************************************************)
EXTENDS Integers, Sequences, FiniteSets, TLC

(* ------------------------------ bounds -------------------------------- *)
MaxSessions == 2
MaxTimers == 2
MaxTicks == 1

(* ------------------------- program constants -------------------------- *)
StaleTimeoutSeconds == 60
SweepIntervalSeconds == 30
SessionExpirySeconds == 300

Agents == {"a1", "a2"}
Customers == 1..MaxSessions
SessionIds == 1..MaxSessions

Free == <<"free">>
UserTask(s) == <<"user", s>>
AgentTask(a) == <<"agent", a>>
TimerTask(s) == <<"timer", s>>
SweepTask == <<"sweep">>

(* status sets *)
Statuses ==
  {"pending", "scheduled", "started", "waiting_for_agent", "agent_joined",
   "in_progress", "completed", "failed", "disconnected", "declined", "expired"}
ActiveStatuses ==
  {"started", "waiting_for_agent", "agent_joined", "in_progress", "disconnected"}
ReuseStatuses == {"started", "waiting_for_agent", "in_progress", "disconnected"}
(* session_expiry_timer without its status test *)
AnyStatus == Statuses

ExpirableStatuses == {"waiting_for_agent", "in_progress"}

(* --------------------------- dict helpers ----------------------------- *)
Put(f, k, v) == [x \in (DOMAIN f) \cup {k} |-> IF x = k THEN v ELSE f[x]]
Del(f, k) == [x \in (DOMAIN f) \ {k} |-> f[x]]
EmptyDict == [x \in {} |-> 0]

(* str(session_id): the registry keys customer connections by the decimal  *)
(* text of the session id; int(key) if key.isdigit() else None reads it    *)
(* back, and a key that is not all digits (a negative id) or reads as 0 is *)
(* falsy in "if session_id_int and ...".                                   *)
str(n) == <<"str", n>>
isdigit(k) == k[2] >= 0
session_id_int(k) == IF isdigit(k) THEN k[2] ELSE 0

VARIABLES
  manager,        \* the ConnectionManager object
  vkyc_sessions,  \* the vkyc_sessions table: row id |-> [customer_id, status]
  user,           \* websocket_vkyc task per session id: [pc, msg, peer]
  agent,          \* websocket_agent task per employee id: [pc, msg, sid]
  timer,          \* session_expiry_timer tasks per session: the wake-up
                  \* times of the sleeping ones, the pc of the running one
  sweep,          \* cleanup_task: [pc, stale_users, stale_agents]
  ws_user,        \* transport of the customer websocket of each session id
  ws_agent,       \* transport of each agent websocket
  now,            \* datetime.now(), in seconds
  outbox,         \* the messages delivered to the clients, kept as observe says
  observe         \* "none": not kept; "last": those of the last step; "all"

vars ==
  <<manager, vkyc_sessions, user, agent, timer, sweep, ws_user, ws_agent,
    now, outbox, observe>>

(* ---------------------- ConnectionManager ----------------------------- *)
ConnectionManager ==
  [active_connections |-> EmptyDict,
   agent_connections |-> EmptyDict,
   agent_sessions |-> EmptyDict,
   session_agents |-> EmptyDict,
   waiting_sessions |-> {},
   recordings |-> {},
   lock |-> Free]

(* connect_user that keeps the entry a key already has *)
connect_user_keep_prior(m, key, t) ==
  IF key \in DOMAIN m.active_connections THEN m
  ELSE [m EXCEPT !.active_connections = Put(@, key, [last_heartbeat |-> t]),
                 !.recordings = @ \cup {key}]

connect_user(m, key, t) ==
  [m EXCEPT !.active_connections = Put(@, key, [last_heartbeat |-> t]),
            !.recordings = @ \cup {key}]

connect_agent(m, a, t) ==
  [m EXCEPT !.agent_connections = Put(@, a, [last_heartbeat |-> t])]

(* disconnect_user without "del self.agent_sessions[agent_id]" *)
disconnect_user_keep_agent(m, key) ==
  LET sid == session_id_int(key)
      m1 == [m EXCEPT !.active_connections = Del(@, key),
                      !.recordings = @ \ {key}]
  IN IF sid # 0 /\ sid \in DOMAIN m1.session_agents
     THEN [m1 EXCEPT !.session_agents = Del(@, sid)]
     ELSE m1

(* disconnect_user that puts a session it releases back into the waiting   *)
(* set and takes a session without an agent out of it                      *)
disconnect_user_requeue(m, key) ==
  LET sid == session_id_int(key)
      m1 == [m EXCEPT !.active_connections = Del(@, key),
                      !.recordings = @ \ {key}]
  IN IF sid # 0 /\ sid \in DOMAIN m1.session_agents
     THEN [m1 EXCEPT !.agent_sessions = Del(@, m1.session_agents[sid]),
                     !.session_agents = Del(@, sid),
                     !.waiting_sessions = @ \cup {sid}]
     ELSE [m1 EXCEPT !.waiting_sessions = @ \ {sid}]

disconnect_user(m, key) ==
  LET sid == session_id_int(key)
      m1 == [m EXCEPT !.active_connections = Del(@, key),
                      !.recordings = @ \ {key}]
  IN IF sid # 0 /\ sid \in DOMAIN m1.session_agents
     THEN [m1 EXCEPT !.agent_sessions = Del(@, m1.session_agents[sid]),
                     !.session_agents = Del(@, sid)]
     ELSE m1

(* disconnect_agent without "del self.session_agents[session_id]" *)
disconnect_agent_half(m, a) ==
  LET m1 == [m EXCEPT !.agent_connections = Del(@, a)]
  IN IF a \in DOMAIN m1.agent_sessions
     THEN [m1 EXCEPT !.agent_sessions = Del(@, a)]
     ELSE m1

disconnect_agent(m, a) ==
  LET m1 == [m EXCEPT !.agent_connections = Del(@, a)]
  IN IF a \in DOMAIN m1.agent_sessions
     THEN [m1 EXCEPT !.session_agents = Del(@, m1.agent_sessions[a]),
                     !.agent_sessions = Del(@, a)]
     ELSE m1

add_waiting_session(m, sid) ==
  [m EXCEPT !.waiting_sessions = @ \cup {sid}]

(* add_waiting_session answering True whether or not the id was present *)
add_waiting_session_always(m, sid) == TRUE

add_waiting_session_result(m, sid) == sid \notin m.waiting_sessions

(* assign_agent_to_session without the "session already has an agent" test *)
assign_result_no_session_check(m, a, sid) == a \notin DOMAIN m.agent_sessions

assign_result(m, a, sid) ==
  a \notin DOMAIN m.agent_sessions /\ sid \notin DOMAIN m.session_agents

assign_agent_to_session(m, a, sid) ==
  IF assign_result(m, a, sid)
  THEN [m EXCEPT !.agent_sessions = Put(@, a, sid),
                 !.session_agents = Put(@, sid, a),
                 !.waiting_sessions = @ \ {sid}]
  ELSE m

(* A send raises when the websocket is closed; a silently dropped          *)
(* connection still takes the frame.                                       *)
UserRegistered(m, s) == str(s) \in DOMAIN m.active_connections
AgentRegistered(m, a) == a \in DOMAIN m.agent_connections
UserSendFails(m, s) == UserRegistered(m, s) /\ ws_user[s] = "closed"
AgentSendFails(m, a) == AgentRegistered(m, a) /\ ws_agent[a] = "closed"
UserSendOk(m, s) == UserRegistered(m, s) /\ ws_user[s] # "closed"
AgentSendOk(m, a) == AgentRegistered(m, a) /\ ws_agent[a] # "closed"

(* send_to_user without the disconnect_user of its except clause *)
send_to_user_no_cleanup(m, s, t) ==
  IF UserSendOk(m, s)
  THEN [m EXCEPT !.active_connections[str(s)].last_heartbeat = t]
  ELSE m

send_to_user(m, s, t) ==
  IF ~UserRegistered(m, s) THEN m
  ELSE IF ws_user[s] # "closed"
       THEN [m EXCEPT !.active_connections[str(s)].last_heartbeat = t]
       ELSE disconnect_user(m, str(s))

send_to_agent(m, a, t) ==
  IF ~AgentRegistered(m, a) THEN m
  ELSE IF ws_agent[a] # "closed"
       THEN [m EXCEPT !.agent_connections[a].last_heartbeat = t]
       ELSE disconnect_agent(m, a)

Msg(to, type, sid) == [to |-> to, type |-> type, sid |-> sid, message |-> ""]
UserMsg(m, s, type) ==
  IF UserSendOk(m, s) THEN {Msg(UserTask(s), type, s)} ELSE {}
AgentMsg(m, a, type, sid) ==
  IF AgentSendOk(m, a) THEN {Msg(AgentTask(a), type, sid)} ELSE {}
Error(a, text) == [to |-> AgentTask(a), type |-> "error", sid |-> 0, message |-> text]
ErrorMsg(m, a, text) == IF AgentSendOk(m, a) THEN {Error(a, text)} ELSE {}

(* what the clients are sent by one step *)
Deliver(msgs) ==
  /\ outbox' = CASE observe = "none" -> outbox
                  [] observe = "last" -> msgs
                  [] OTHER -> outbox \cup msgs
  /\ UNCHANGED observe

(* broadcast_to_all_agents, the sends made while the lock is held *)
BroadcastFailed(m) == {a \in DOMAIN m.agent_connections : ws_agent[a] = "closed"}
BroadcastSends(m, t) ==
  [m EXCEPT !.agent_connections =
     [a \in DOMAIN @ |->
        IF ws_agent[a] # "closed" THEN [last_heartbeat |-> t] ELSE @[a]]]
BroadcastMsgs(m, type, sid) ==
  {Msg(AgentTask(a), type, sid) :
     a \in {b \in DOMAIN m.agent_connections : ws_agent[b] # "closed"}}

Acquire(m, t) == [m EXCEPT !.lock = t]
Release(m) == [m EXCEPT !.lock = Free]

(* the stale keys cleanup_stale_connections collects *)
StaleUsers(m, t) ==
  {k \in DOMAIN m.active_connections :
     t - m.active_connections[k].last_heartbeat > StaleTimeoutSeconds}
StaleAgents(m, t) ==
  {a \in DOMAIN m.agent_connections :
     t - m.agent_connections[a].last_heartbeat > StaleTimeoutSeconds}

RECURSIVE DisconnectUsers(_, _)
DisconnectUsers(m, keys) ==
  IF keys = {} THEN m
  ELSE LET k == CHOOSE x \in keys : TRUE
       IN DisconnectUsers(disconnect_user(m, k), keys \ {k})

RECURSIVE DisconnectAgents(_, _)
DisconnectAgents(m, as) ==
  IF as = {} THEN m
  ELSE LET a == CHOOSE x \in as : TRUE
       IN DisconnectAgents(disconnect_agent(m, a), as \ {a})

(* ------------------------------ the store ----------------------------- *)
Exists(sid) == sid \in 1..Len(vkyc_sessions)
Status(sid) == vkyc_sessions[sid].status
SetStatus(db, sid, st) == [db EXCEPT ![sid].status = st]

(* start_vkyc: the session an existing-session query finds for a customer *)
ReusableOf(db, c) ==
  {i \in 1..Len(db) : db[i].customer_id = c /\ db[i].status \in ReuseStatuses}
MaxOf(S) == CHOOSE x \in S : \A y \in S : y <= x

(* ------------------------------- Init --------------------------------- *)
UserIdle == [pc |-> "off", msg |-> "", peer |-> ""]
UserRecv == [pc |-> "recv", msg |-> "", peer |-> ""]
UserStuck == [pc |-> "deadlock", msg |-> "", peer |-> ""]
AgentIdle == [pc |-> "off", msg |-> "", sid |-> 0]
AgentRecv == [pc |-> "recv", msg |-> "", sid |-> 0]
AgentStuck == [pc |-> "deadlock", msg |-> "", sid |-> 0]
TimerIdle == [sleeping |-> <<>>, pc |-> "idle"]
SweepIdle == [pc |-> "sleep", stale_users |-> {}, stale_agents |-> {}]

Init ==
  /\ manager = ConnectionManager
  /\ vkyc_sessions = <<>>
  /\ user = [s \in SessionIds |-> UserIdle]
  /\ agent = [a \in Agents |-> AgentIdle]
  /\ timer = [s \in SessionIds |-> TimerIdle]
  /\ sweep = SweepIdle
  /\ ws_user = [s \in SessionIds |-> "closed"]
  /\ ws_agent = [a \in Agents |-> "closed"]
  /\ now = 0
  /\ outbox = {}
  /\ observe = "none"

(* tasks suspended in an acquire of the registry lock; an acquire does not *)
(* suspend when the lock is free and nobody waits for it (asyncio.Lock)    *)
Waiters ==
  {UserTask(s) : s \in {x \in SessionIds :
       user[x].pc \in {"bcast_wait", "disconnect"}}}
  \cup {AgentTask(a) : a \in {x \in Agents :
       agent[x].pc \in {"bcast_wait", "assign_wait"}}}
  \cup {TimerTask(s) : s \in {x \in SessionIds : timer[x].pc = "bcast_wait"}}
  \cup (IF sweep.pc = "disconnect" THEN {SweepTask} ELSE {})

LockFree(m) == m.lock = Free /\ Waiters = {}

(* expiry timers a session has sleeping or about to be created by a        *)
(* handler that is past the point of no return                             *)
TimersInFlight(sid) ==
  Len(timer[sid].sleeping)
  + (IF user[sid].msg = "ready_for_agent" /\ user[sid].pc # "recv"
        /\ user[sid].pc # "off" /\ user[sid].pc # "deadlock" THEN 1 ELSE 0)
  + Cardinality({a \in Agents :
        /\ agent[a].msg = "accept_session" /\ agent[a].sid = sid
        /\ agent[a].pc \notin {"recv", "off", "deadlock"}})

(* asyncio.create_task(session_expiry_timer(sid, 300)): the timer wakes    *)
(* SessionExpirySeconds from now                                           *)
Horizon == MaxTicks * SessionExpirySeconds
create_task(sleeping, t) == Append(sleeping, t + SessionExpirySeconds)

(* ------------------------- POST /api/vkyc/start ----------------------- *)
HttpClient(c) == <<"http", c>>

start_vkyc(c) ==
  /\ IF ReusableOf(vkyc_sessions, c) # {}
     THEN /\ Deliver({Msg(HttpClient(c), "session_id",
                           MaxOf(ReusableOf(vkyc_sessions, c)))})
          /\ UNCHANGED vkyc_sessions
     ELSE /\ Len(vkyc_sessions) < MaxSessions
          /\ vkyc_sessions' =
               Append(vkyc_sessions, [customer_id |-> c, status |-> "started"])
          /\ Deliver({Msg(HttpClient(c), "session_id", Len(vkyc_sessions) + 1)})
  /\ UNCHANGED <<manager, user, agent, timer, sweep, ws_user, ws_agent, now>>

(* ----------------------- websocket_vkyc (customer) -------------------- *)
(* the finally clause of the handler: disconnect_user, then in_progress    *)
(* becomes disconnected                                                    *)
FinallyStatus(db, s) ==
  IF db[s].status = "in_progress" THEN SetStatus(db, s, "disconnected") ELSE db

EnterBroadcast(m, t) == IF LockFree(m) THEN Acquire(m, t) ELSE m
BroadcastPc(m) == IF LockFree(m) THEN "bcast_send" ELSE "bcast_wait"

CustomerConnect(s) ==
  /\ user[s].pc = "off"
  /\ manager.lock = Free
  /\ IF Exists(s)
     THEN /\ manager' = connect_user(manager, str(s), now)
          /\ ws_user' = [ws_user EXCEPT ![s] = "open"]
          /\ user' = [user EXCEPT ![s] = UserRecv]
          /\ Deliver({Msg(UserTask(s), "heartbeat_interval", s)})
     ELSE /\ manager' = connect_user(manager, str(s), now)
          /\ ws_user' = [ws_user EXCEPT ![s] = "closed"]
          /\ Deliver({})
          /\ UNCHANGED user
  /\ UNCHANGED <<vkyc_sessions, agent, timer, sweep, ws_agent, now>>

(* heartbeat: "continue"; msg keeps the type of the frame taken last *)
CustomerHeartbeat(s) ==
  /\ user[s].pc = "recv" /\ ws_user[s] = "open"
  /\ user' = [user EXCEPT ![s].msg = "heartbeat"]
  /\ Deliver({})
  /\ UNCHANGED <<manager, vkyc_sessions, agent, timer, sweep,
                 ws_user, ws_agent, now>>

CustomerReady(s) ==
  /\ user[s].pc = "recv" /\ ws_user[s] = "open"
  /\ vkyc_sessions' = SetStatus(vkyc_sessions, s, "waiting_for_agent")
  /\ LET added == add_waiting_session_result(manager, s)
         m1 == add_waiting_session(manager, s)
     IN IF added
        THEN /\ manager' = EnterBroadcast(m1, UserTask(s))
             /\ user' = [user EXCEPT ![s].pc = BroadcastPc(m1),
                                     ![s].msg = "ready_for_agent"]
        ELSE /\ manager' = m1
             /\ user' = [user EXCEPT ![s].pc = "notify_user",
                                     ![s].msg = "ready_for_agent"]
  /\ Deliver({})
  /\ UNCHANGED <<agent, timer, sweep, ws_user, ws_agent, now>>

(* user_left: the part after the agent was told, through the finally *)
UserLeftTail(m, s) ==
  /\ manager' = disconnect_user(disconnect_user(m, str(s)), str(s))
  /\ vkyc_sessions' = FinallyStatus(vkyc_sessions, s)
  /\ user' = [user EXCEPT ![s] = UserIdle]
  /\ ws_user' = [ws_user EXCEPT ![s] = "closed"]

CustomerUserLeft(s) ==
  /\ user[s].pc = "recv" /\ ws_user[s] = "open"
  /\ Deliver({})
  /\ IF s \in DOMAIN manager.session_agents
     THEN /\ vkyc_sessions' = SetStatus(vkyc_sessions, s, "disconnected")
          /\ user' = [user EXCEPT ![s] = [pc |-> "notify_agent",
                                          msg |-> "user_left",
                                          peer |-> manager.session_agents[s]]]
          /\ UNCHANGED <<manager, ws_user>>
     ELSE IF LockFree(manager)
     THEN /\ manager' = disconnect_user(disconnect_user(manager, str(s)), str(s))
          /\ vkyc_sessions' = SetStatus(vkyc_sessions, s, "disconnected")
          /\ user' = [user EXCEPT ![s] = UserIdle]
          /\ ws_user' = [ws_user EXCEPT ![s] = "closed"]
     ELSE /\ vkyc_sessions' = SetStatus(vkyc_sessions, s, "disconnected")
          /\ user' = [user EXCEPT ![s].pc = "disconnect", ![s].msg = "user_left"]
          /\ UNCHANGED <<manager, ws_user>>
  /\ UNCHANGED <<agent, timer, sweep, ws_agent, now>>

CustomerDisconnect(s) ==
  /\ user[s].pc = "disconnect"
  /\ manager.lock = Free
  /\ UserLeftTail(manager, s)
  /\ Deliver({})
  /\ UNCHANGED <<agent, timer, sweep, ws_agent, now>>

CustomerKycComplete(s) ==
  /\ user[s].pc = "recv" /\ ws_user[s] = "open"
  /\ vkyc_sessions' = SetStatus(vkyc_sessions, s, "completed")
  /\ user' = [user EXCEPT ![s].pc = "notify_user", ![s].msg = "kyc_complete"]
  /\ Deliver({})
  /\ UNCHANGED <<manager, agent, timer, sweep, ws_user, ws_agent, now>>

CustomerError(s) ==
  /\ user[s].pc = "recv" /\ ws_user[s] = "open"
  /\ vkyc_sessions' = SetStatus(vkyc_sessions, s, "failed")
  /\ Deliver({})
  /\ UNCHANGED <<manager, user, agent, timer, sweep, ws_user, ws_agent, now>>

(* The dict an OCR call hands back: the body of a 200 response, which may  *)
(* or may not carry "success" and "error", or the service's own failure    *)
(* dict; a document type that is neither pan nor aadhaar gets an error     *)
(* dict without a call.                                                    *)
OcrResults == [success : {"true", "false", "absent"}, error : BOOLEAN]
DocTypes == {"pan", "aadhaar_front", "passport"}

extract_info(doc_type) ==
  IF doc_type \in {"pan", "aadhaar_front"} THEN OcrResults
  ELSE {[success |-> "absent", error |-> TRUE]}

(* ocr_result.get("success", False) or "error" not in ocr_result *)
ocr_success(r) == r.success = "true" \/ ~r.error

(* verify_with_digilocker always hands back a dict with "success" *)
DigilockerResults == [success : {"true", "false"}, error : {FALSE}]
digilocker_success(r) == r.success = "true"

Result(to, type, sid, success) ==
  [Msg(to, type, sid) EXCEPT
     !.message = IF success THEN "success=true" ELSE "success=false"]

CustomerDocumentCaptured(s, doc_type, r) ==
  /\ user[s].pc = "recv" /\ ws_user[s] = "open"
  /\ r \in extract_info(doc_type)
  /\ user' = [user EXCEPT ![s] = [pc |-> "result_user",
                                  msg |-> "document_captured",
                                  peer |-> "",
                                  result |-> r,
                                  success |-> ocr_success(r)]]
  /\ Deliver({})
  /\ UNCHANGED <<manager, vkyc_sessions, agent, timer, sweep,
                 ws_user, ws_agent, now>>

CustomerVerifyDigilocker(s, r) ==
  /\ user[s].pc = "recv" /\ ws_user[s] = "open"
  /\ r \in DigilockerResults
  /\ user' = [user EXCEPT ![s] = [pc |-> "result_user",
                                  msg |-> "verify_digilocker",
                                  peer |-> "",
                                  result |-> r,
                                  success |-> digilocker_success(r)]]
  /\ Deliver({})
  /\ UNCHANGED <<manager, vkyc_sessions, agent, timer, sweep,
                 ws_user, ws_agent, now>>

ResultType(msg) ==
  IF msg = "document_captured" THEN "document_verification_result"
  ELSE "digilocker_result"

CustomerResultUser(s) ==
  /\ user[s].pc = "result_user"
  /\ ~UserSendFails(manager, s) \/ manager.lock = Free
  /\ manager' = send_to_user(manager, s, now)
  /\ Deliver(IF UserSendOk(manager, s)
             THEN {Result(UserTask(s), ResultType(user[s].msg), s,
                          user[s].success)}
             ELSE {})
  /\ user' = [user EXCEPT ![s] = IF user[s].msg = "document_captured"
                                 THEN [@ EXCEPT !.pc = "result_agent"]
                                 ELSE UserRecv]
  /\ UNCHANGED <<vkyc_sessions, agent, timer, sweep, ws_user, ws_agent, now>>

CustomerResultAgent(s) ==
  /\ user[s].pc = "result_agent"
  /\ IF s \in DOMAIN manager.session_agents
     THEN LET a == manager.session_agents[s]
          IN /\ ~AgentSendFails(manager, a) \/ manager.lock = Free
             /\ manager' = send_to_agent(manager, a, now)
             /\ Deliver(IF AgentSendOk(manager, a)
                        THEN {Result(AgentTask(a), "document_verification_result",
                                     s, user[s].success)}
                        ELSE {})
     ELSE /\ Deliver({})
          /\ UNCHANGED manager
  /\ user' = [user EXCEPT ![s] = UserRecv]
  /\ UNCHANGED <<vkyc_sessions, agent, timer, sweep, ws_user, ws_agent, now>>

CustomerNotifyUser(s) ==
  /\ user[s].pc = "notify_user"
  /\ ~UserSendFails(manager, s) \/ manager.lock = Free
  /\ LET m1 == send_to_user(manager, s, now)
     IN IF user[s].msg = "ready_for_agent"
        THEN /\ manager' = m1
             /\ Deliver(UserMsg(manager, s, "waiting_for_agent"))
             /\ timer' = [timer EXCEPT ![s].sleeping = create_task(@, now)]
             /\ user' = [user EXCEPT ![s] = UserRecv]
        ELSE /\ Deliver(UserMsg(manager, s, "kyc_completed"))
             /\ UNCHANGED timer
             /\ IF s \in DOMAIN m1.session_agents
                THEN /\ manager' = m1
                     /\ user' = [user EXCEPT ![s].pc = "notify_agent",
                                             ![s].peer = m1.session_agents[s]]
                ELSE /\ manager' = EnterBroadcast(m1, UserTask(s))
                     /\ user' = [user EXCEPT ![s].pc = BroadcastPc(m1)]
  /\ UNCHANGED <<vkyc_sessions, agent, sweep, ws_user, ws_agent, now>>

CustomerNotifyAgent(s) ==
  /\ user[s].pc = "notify_agent"
  /\ ~AgentSendFails(manager, user[s].peer) \/ manager.lock = Free
  /\ LET m1 == send_to_agent(manager, user[s].peer, now)
     IN IF user[s].msg = "kyc_complete"
        THEN /\ Deliver(AgentMsg(manager, user[s].peer, "session_completed", s))
             /\ manager' = EnterBroadcast(m1, UserTask(s))
             /\ user' = [user EXCEPT ![s].pc = BroadcastPc(m1)]
             /\ UNCHANGED <<vkyc_sessions, ws_user>>
        ELSE /\ Deliver(AgentMsg(manager, user[s].peer, "user_left", s))
             /\ IF LockFree(m1)
                THEN UserLeftTail(m1, s)
                ELSE /\ manager' = m1
                     /\ user' = [user EXCEPT ![s].pc = "disconnect"]
                     /\ UNCHANGED <<vkyc_sessions, ws_user>>
  /\ UNCHANGED <<agent, timer, sweep, ws_agent, now>>

CustomerBroadcastAcquire(s) ==
  /\ user[s].pc = "bcast_wait"
  /\ manager.lock = Free
  /\ manager' = Acquire(manager, UserTask(s))
  /\ user' = [user EXCEPT ![s].pc = "bcast_send"]
  /\ Deliver({})
  /\ UNCHANGED <<vkyc_sessions, agent, timer, sweep, ws_user, ws_agent, now>>

CustomerBroadcastSend(s) ==
  /\ user[s].pc = "bcast_send"
  /\ LET m1 == BroadcastSends(manager, now)
         type == IF user[s].msg = "ready_for_agent"
                 THEN "new_waiting_session" ELSE "session_completed"
     IN /\ Deliver(BroadcastMsgs(manager, type, s))
        /\ IF BroadcastFailed(manager) # {}
           THEN /\ manager' = m1
                /\ user' = [user EXCEPT ![s] = UserStuck]
                /\ UNCHANGED <<vkyc_sessions, ws_user>>
           ELSE IF user[s].msg = "ready_for_agent"
           THEN /\ manager' = Release(m1)
                /\ user' = [user EXCEPT ![s].pc = "notify_user"]
                /\ UNCHANGED <<vkyc_sessions, ws_user>>
           ELSE /\ manager' = disconnect_user(Release(m1), str(s))
                /\ vkyc_sessions' = FinallyStatus(vkyc_sessions, s)
                /\ user' = [user EXCEPT ![s] = UserIdle]
                /\ ws_user' = [ws_user EXCEPT ![s] = "closed"]
  /\ UNCHANGED <<agent, timer, sweep, ws_agent, now>>

(* the receive loop ends: the peer closed the socket (WebSocketDisconnect) *)
(* or went silent (receive timeout, ping, no pong); the finally runs       *)
CustomerCleanup(s) ==
  /\ user[s].pc = "recv" /\ ws_user[s] \in {"closed", "dropped"}
  /\ manager.lock = Free
  /\ manager' = disconnect_user(manager, str(s))
  /\ vkyc_sessions' = FinallyStatus(vkyc_sessions, s)
  /\ user' = [user EXCEPT ![s] = UserIdle]
  /\ ws_user' = [ws_user EXCEPT ![s] = "closed"]
  /\ Deliver({})
  /\ UNCHANGED <<agent, timer, sweep, ws_agent, now>>

(* A second connection for a session id whose first handler is still      *)
(* reading: connect_user overwrites the entry and the recorder; both       *)
(* handlers run.  user[s] goes on as the handler of the second connection  *)
(* and records that the first one has still to end.                        *)
CustomerSecondConnect(s) ==
  /\ user[s].pc = "recv" /\ ws_user[s] = "open"
  /\ "superseded" \notin DOMAIN user[s]
  /\ manager.lock = Free
  /\ manager' = connect_user(manager, str(s), now)
  /\ user' = [user EXCEPT ![s] = [pc |-> "recv", msg |-> "", peer |-> "",
                                  superseded |-> TRUE]]
  /\ Deliver({Msg(UserTask(s), "heartbeat_interval", s)})
  /\ UNCHANGED <<vkyc_sessions, agent, timer, sweep, ws_user, ws_agent, now>>

(* the first connection's receive loop ends and its finally clause runs *)
SupersededCleanup(s) ==
  /\ "superseded" \in DOMAIN user[s]
  /\ manager.lock = Free
  /\ manager' = disconnect_user(manager, str(s))
  /\ vkyc_sessions' = FinallyStatus(vkyc_sessions, s)
  /\ user' = [user EXCEPT ![s] = [pc |-> @.pc, msg |-> @.msg, peer |-> @.peer]]
  /\ Deliver({})
  /\ UNCHANGED <<agent, timer, sweep, ws_user, ws_agent, now>>

(* the customer's side of the transport *)
CustomerCloses(s) ==
  /\ ws_user[s] = "open"
  /\ ws_user' = [ws_user EXCEPT ![s] = "closed"]
  /\ Deliver({})
  /\ UNCHANGED <<manager, vkyc_sessions, user, agent, timer, sweep, ws_agent, now>>

CustomerDrops(s) ==
  /\ ws_user[s] = "open"
  /\ ws_user' = [ws_user EXCEPT ![s] = "dropped"]
  /\ Deliver({})
  /\ UNCHANGED <<manager, vkyc_sessions, user, agent, timer, sweep, ws_agent, now>>

(* ------------------------ websocket_agent (agent) --------------------- *)
AgentConnect(a) ==
  /\ agent[a].pc = "off"
  /\ manager.lock = Free
  /\ manager' = connect_agent(manager, a, now)
  /\ ws_agent' = [ws_agent EXCEPT ![a] = "open"]
  /\ agent' = [agent EXCEPT ![a] = AgentRecv]
  /\ Deliver({Msg(AgentTask(a), "heartbeat_interval", 0),
              Msg(AgentTask(a), "waiting_sessions", 0)})
  /\ UNCHANGED <<vkyc_sessions, user, timer, sweep, ws_user, now>>

AgentHeartbeat(a) ==
  /\ agent[a].pc = "recv" /\ ws_agent[a] = "open"
  /\ agent' = [agent EXCEPT ![a].msg = "heartbeat"]
  /\ Deliver({})
  /\ UNCHANGED <<manager, vkyc_sessions, user, timer, sweep,
                 ws_user, ws_agent, now>>

(* accept_session from assign_agent_to_session on: the lock is held *)
AcceptAssign(a, sid) ==
  IF assign_result(manager, a, sid)
  THEN /\ manager' = assign_agent_to_session(manager, a, sid)
       /\ vkyc_sessions' = SetStatus(vkyc_sessions, sid, "agent_joined")
       /\ agent' = [agent EXCEPT ![a] = [pc |-> "notify_user",
                                         msg |-> "accept_session",
                                         sid |-> sid]]
       /\ Deliver({})
  ELSE /\ manager' = send_to_agent(manager, a, now)
       /\ Deliver(ErrorMsg(manager, a, "Could not assign agent to session"))
       /\ agent' = [agent EXCEPT ![a] = AgentRecv]
       /\ UNCHANGED vkyc_sessions

AcceptRejected(a, sid) ==
  \/ ~Exists(sid)
  \/ Status(sid) # "waiting_for_agent"
  \/ a \in DOMAIN manager.agent_sessions

AcceptError(a, sid) ==
  IF ~Exists(sid) THEN "Session not found"
  ELSE IF Status(sid) # "waiting_for_agent"
  THEN "Session is not waiting for agent or already assigned"
  ELSE "You are already assigned to another session"

AgentAccept(a, sid) ==
  /\ agent[a].pc = "recv" /\ ws_agent[a] = "open"
  /\ IF AcceptRejected(a, sid)
     THEN /\ manager' = send_to_agent(manager, a, now)
          /\ Deliver(ErrorMsg(manager, a, AcceptError(a, sid)))
          /\ UNCHANGED <<agent, vkyc_sessions>>
     ELSE IF LockFree(manager)
     THEN AcceptAssign(a, sid)
     ELSE /\ agent' = [agent EXCEPT ![a] = [pc |-> "assign_wait",
                                            msg |-> "accept_session",
                                            sid |-> sid]]
          /\ Deliver({})
          /\ UNCHANGED <<manager, vkyc_sessions>>
  /\ UNCHANGED <<user, timer, sweep, ws_user, ws_agent, now>>

AgentAssign(a) ==
  /\ agent[a].pc = "assign_wait"
  /\ manager.lock = Free
  /\ AcceptAssign(a, agent[a].sid)
  /\ UNCHANGED <<user, timer, sweep, ws_user, ws_agent, now>>

AgentDecline(a, sid) ==
  /\ agent[a].pc = "recv" /\ ws_agent[a] = "open"
  /\ Deliver({})
  /\ IF ~Exists(sid)
     THEN UNCHANGED <<manager, vkyc_sessions, agent>>
     ELSE LET m1 == [manager EXCEPT !.waiting_sessions = @ \ {sid}]
          IN /\ vkyc_sessions' = SetStatus(vkyc_sessions, sid, "declined")
             /\ manager' = EnterBroadcast(m1, AgentTask(a))
             /\ agent' = [agent EXCEPT ![a] = [pc |-> BroadcastPc(m1),
                                               msg |-> "decline_session",
                                               sid |-> sid]]
  /\ UNCHANGED <<user, timer, sweep, ws_user, ws_agent, now>>

AgentLeave(a, sid) ==
  /\ agent[a].pc = "recv" /\ ws_agent[a] = "open"
  /\ Deliver({})
  /\ IF /\ a \in DOMAIN manager.agent_sessions
        /\ manager.agent_sessions[a] = sid
        /\ Exists(sid)
     THEN /\ vkyc_sessions' = SetStatus(vkyc_sessions, sid, "waiting_for_agent")
          /\ manager' = add_waiting_session(
                 [manager EXCEPT !.session_agents = Del(@, sid),
                                 !.agent_sessions = Del(@, a)], sid)
          /\ agent' = [agent EXCEPT ![a] = [pc |-> "notify_user",
                                            msg |-> "leave_session",
                                            sid |-> sid]]
     ELSE UNCHANGED <<manager, vkyc_sessions, agent>>
  /\ UNCHANGED <<user, timer, sweep, ws_user, ws_agent, now>>

(* webrtc_offer, webrtc_answer, webrtc_ice_candidate: forwarded to the      *)
(* customer of the session the frame names when that customer is           *)
(* registered                                                              *)
WebrtcTypes == {"webrtc_offer", "webrtc_answer", "webrtc_ice_candidate"}

AgentWebrtc(a, sid, type) ==
  /\ agent[a].pc = "recv" /\ ws_agent[a] = "open"
  /\ ~UserSendFails(manager, sid) \/ manager.lock = Free
  /\ manager' = send_to_user(manager, sid, now)
  /\ Deliver(UserMsg(manager, sid, type))
  /\ agent' = [agent EXCEPT ![a].msg = type]
  /\ UNCHANGED <<vkyc_sessions, user, timer, sweep, ws_user, ws_agent, now>>

(* "Verify agent owns this session" *)
OwnsSession(m, a, sid) ==
  a \in DOMAIN m.agent_sessions /\ m.agent_sessions[a] = sid

NotAssigned == "You are not assigned to this session"

(* request_document_capture: the request to the customer, then the         *)
(* document_capture_requested to the agent                                 *)
AgentRequestCapture(a, sid) ==
  /\ agent[a].pc = "recv" /\ ws_agent[a] = "open"
  /\ IF ~OwnsSession(manager, a, sid)
     THEN /\ ~AgentSendFails(manager, a) \/ manager.lock = Free
          /\ manager' = send_to_agent(manager, a, now)
          /\ Deliver(ErrorMsg(manager, a, NotAssigned))
          /\ agent' = [agent EXCEPT ![a].msg = "request_document_capture"]
     ELSE /\ ~UserSendFails(manager, sid) \/ manager.lock = Free
          /\ manager' = send_to_user(manager, sid, now)
          /\ Deliver(UserMsg(manager, sid, "request_document_capture"))
          /\ agent' = [agent EXCEPT ![a] = [pc |-> "capture_ack",
                                            msg |-> "request_document_capture",
                                            sid |-> sid]]
  /\ UNCHANGED <<vkyc_sessions, user, timer, sweep, ws_user, ws_agent, now>>

AgentCaptureAck(a) ==
  /\ agent[a].pc = "capture_ack"
  /\ ~AgentSendFails(manager, a) \/ manager.lock = Free
  /\ manager' = send_to_agent(manager, a, now)
  /\ Deliver(AgentMsg(manager, a, "document_capture_requested", agent[a].sid))
  /\ agent' = [agent EXCEPT ![a].pc = "recv"]
  /\ UNCHANGED <<vkyc_sessions, user, timer, sweep, ws_user, ws_agent, now>>

(* cancel_document_capture *)
AgentCancelCapture(a, sid) ==
  /\ agent[a].pc = "recv" /\ ws_agent[a] = "open"
  /\ IF ~OwnsSession(manager, a, sid)
     THEN /\ ~AgentSendFails(manager, a) \/ manager.lock = Free
          /\ manager' = send_to_agent(manager, a, now)
          /\ Deliver(ErrorMsg(manager, a, NotAssigned))
     ELSE /\ ~UserSendFails(manager, sid) \/ manager.lock = Free
          /\ manager' = send_to_user(manager, sid, now)
          /\ Deliver(UserMsg(manager, sid, "cancel_document_capture"))
  /\ agent' = [agent EXCEPT ![a].msg = "cancel_document_capture"]
  /\ UNCHANGED <<vkyc_sessions, user, timer, sweep, ws_user, ws_agent, now>>

AgentNotifyUser(a) ==
  /\ agent[a].pc = "notify_user"
  /\ ~UserSendFails(manager, agent[a].sid) \/ manager.lock = Free
  /\ manager' = send_to_user(manager, agent[a].sid, now)
  /\ Deliver(UserMsg(manager, agent[a].sid,
        CASE agent[a].msg = "accept_session" -> "agent_assigned"
          [] agent[a].msg = "leave_session" -> "agent_left"
          [] OTHER -> "agent_declined"))
  /\ agent' = [agent EXCEPT ![a] =
                 IF agent[a].msg = "decline_session"
                 THEN AgentRecv ELSE [@ EXCEPT !.pc = "notify_agent"]]
  /\ UNCHANGED <<vkyc_sessions, user, timer, sweep, ws_user, ws_agent, now>>

AgentNotifyAgent(a) ==
  /\ agent[a].pc = "notify_agent"
  /\ ~AgentSendFails(manager, a) \/ manager.lock = Free
  /\ LET m1 == send_to_agent(manager, a, now)
     IN /\ manager' = EnterBroadcast(m1, AgentTask(a))
        /\ agent' = [agent EXCEPT ![a].pc = BroadcastPc(m1)]
  /\ Deliver(AgentMsg(manager, a,
        IF agent[a].msg = "accept_session"
        THEN "session_accepted" ELSE "session_left", agent[a].sid))
  /\ UNCHANGED <<vkyc_sessions, user, timer, sweep, ws_user, ws_agent, now>>

AgentBroadcastAcquire(a) ==
  /\ agent[a].pc = "bcast_wait"
  /\ manager.lock = Free
  /\ manager' = Acquire(manager, AgentTask(a))
  /\ agent' = [agent EXCEPT ![a].pc = "bcast_send"]
  /\ Deliver({})
  /\ UNCHANGED <<vkyc_sessions, user, timer, sweep, ws_user, ws_agent, now>>

AgentBroadcastSend(a) ==
  /\ agent[a].pc = "bcast_send"
  /\ LET m1 == BroadcastSends(manager, now)
         sid == agent[a].sid
         type == CASE agent[a].msg = "accept_session" -> "session_taken"
                   [] agent[a].msg = "leave_session" -> "session_available"
                   [] OTHER -> "session_removed"
     IN /\ Deliver(BroadcastMsgs(manager, type, sid))
        /\ IF BroadcastFailed(manager) # {}
           THEN /\ manager' = m1
                /\ agent' = [agent EXCEPT ![a] = AgentStuck]
                /\ UNCHANGED <<vkyc_sessions, timer>>
           ELSE /\ manager' = Release(m1)
                /\ IF agent[a].msg = "accept_session"
                   THEN /\ vkyc_sessions' = SetStatus(vkyc_sessions, sid, "in_progress")
                        /\ timer' = [timer EXCEPT ![sid].sleeping = create_task(@, now)]
                        /\ agent' = [agent EXCEPT ![a] = AgentRecv]
                   ELSE /\ agent' = [agent EXCEPT ![a] =
                              IF agent[a].msg = "decline_session"
                              THEN [@ EXCEPT !.pc = "notify_user"] ELSE AgentRecv]
                        /\ UNCHANGED <<vkyc_sessions, timer>>
  /\ UNCHANGED <<user, sweep, ws_user, ws_agent, now>>

AgentCleanup(a) ==
  /\ agent[a].pc = "recv" /\ ws_agent[a] \in {"closed", "dropped"}
  /\ manager.lock = Free
  /\ manager' = disconnect_agent(manager, a)
  /\ agent' = [agent EXCEPT ![a] = AgentIdle]
  /\ ws_agent' = [ws_agent EXCEPT ![a] = "closed"]
  /\ Deliver({})
  /\ UNCHANGED <<vkyc_sessions, user, timer, sweep, ws_user, now>>

AgentCloses(a) ==
  /\ ws_agent[a] = "open"
  /\ ws_agent' = [ws_agent EXCEPT ![a] = "closed"]
  /\ Deliver({})
  /\ UNCHANGED <<manager, vkyc_sessions, user, agent, timer, sweep, ws_user, now>>

AgentDrops(a) ==
  /\ ws_agent[a] = "open"
  /\ ws_agent' = [ws_agent EXCEPT ![a] = "dropped"]
  /\ Deliver({})
  /\ UNCHANGED <<manager, vkyc_sessions, user, agent, timer, sweep, ws_user, now>>

(* ------------------------ session_expiry_timer ------------------------ *)
TimerFire(s) ==
  /\ timer[s].pc = "idle"
  /\ timer[s].sleeping # <<>> /\ Head(timer[s].sleeping) <= now
  /\ Deliver({})
  /\ IF Exists(s) /\ Status(s) \in ExpirableStatuses
     THEN /\ vkyc_sessions' = SetStatus(vkyc_sessions, s, "expired")
          /\ timer' = [timer EXCEPT ![s] = [sleeping |-> Tail(@.sleeping),
                                            pc |-> "notify_user"]]
     ELSE /\ timer' = [timer EXCEPT ![s].sleeping = Tail(@)]
          /\ UNCHANGED vkyc_sessions
  /\ UNCHANGED <<manager, user, agent, sweep, ws_user, ws_agent, now>>

TimerNotifyUser(s) ==
  /\ timer[s].pc = "notify_user"
  /\ ~UserSendFails(manager, s) \/ manager.lock = Free
  /\ LET m1 == send_to_user(manager, s, now)
     IN /\ manager' = EnterBroadcast(m1, TimerTask(s))
        /\ timer' = [timer EXCEPT ![s].pc = BroadcastPc(m1)]
  /\ Deliver(UserMsg(manager, s, "session_expired"))
  /\ UNCHANGED <<vkyc_sessions, user, agent, sweep, ws_user, ws_agent, now>>

TimerBroadcastAcquire(s) ==
  /\ timer[s].pc = "bcast_wait"
  /\ manager.lock = Free
  /\ manager' = Acquire(manager, TimerTask(s))
  /\ timer' = [timer EXCEPT ![s].pc = "bcast_send"]
  /\ Deliver({})
  /\ UNCHANGED <<vkyc_sessions, user, agent, sweep, ws_user, ws_agent, now>>

TimerBroadcastSend(s) ==
  /\ timer[s].pc = "bcast_send"
  /\ Deliver(BroadcastMsgs(manager, "session_expired", s))
  /\ IF BroadcastFailed(manager) # {}
     THEN /\ manager' = BroadcastSends(manager, now)
          /\ timer' = [timer EXCEPT ![s].pc = "deadlock"]
     ELSE /\ manager' = disconnect_user(Release(BroadcastSends(manager, now)), str(s))
          /\ timer' = [timer EXCEPT ![s].pc = "idle"]
  /\ UNCHANGED <<vkyc_sessions, user, agent, sweep, ws_user, ws_agent, now>>

(* ------------- cleanup_task / cleanup_stale_connections --------------- *)
cleanup_stale_connections ==
  /\ sweep.pc = "sleep"
  /\ manager.lock = Free
  /\ Deliver({})
  /\ IF \/ Waiters = {}
        \/ StaleUsers(manager, now) = {} /\ StaleAgents(manager, now) = {}
     THEN /\ manager' = DisconnectAgents(
                          DisconnectUsers(manager, StaleUsers(manager, now)),
                          StaleAgents(manager, now))
          /\ UNCHANGED sweep
     ELSE /\ sweep' = [pc |-> "disconnect",
                       stale_users |-> StaleUsers(manager, now),
                       stale_agents |-> StaleAgents(manager, now)]
          /\ UNCHANGED manager
  /\ UNCHANGED <<vkyc_sessions, user, agent, timer, ws_user, ws_agent, now>>

SweepDisconnect ==
  /\ sweep.pc = "disconnect"
  /\ manager.lock = Free
  /\ manager' = DisconnectAgents(DisconnectUsers(manager, sweep.stale_users),
                                 sweep.stale_agents)
  /\ sweep' = SweepIdle
  /\ Deliver({})
  /\ UNCHANGED <<vkyc_sessions, user, agent, timer, ws_user, ws_agent, now>>

(* time passes: d seconds, up to the horizon *)
Tick(d, horizon) ==
  /\ now + d <= horizon
  /\ now' = now + d
  /\ Deliver({})
  /\ UNCHANGED <<manager, vkyc_sessions, user, agent, timer, sweep, ws_user, ws_agent>>

(* ------------------------- the specification -------------------------- *)
(* a message that may create an expiry timer is taken while the session    *)
(* has fewer than MaxTimers of them in flight                              *)
ReadyForAgent(s) == TimersInFlight(s) < MaxTimers /\ CustomerReady(s)
AcceptSession(a, sid) == TimersInFlight(sid) < MaxTimers /\ AgentAccept(a, sid)

CustomerStep(s) ==
  \/ CustomerConnect(s) \/ CustomerHeartbeat(s) \/ ReadyForAgent(s)
  \/ CustomerUserLeft(s) \/ CustomerDisconnect(s) \/ CustomerKycComplete(s)
  \/ CustomerError(s) \/ CustomerNotifyUser(s) \/ CustomerNotifyAgent(s)
  \/ CustomerBroadcastAcquire(s) \/ CustomerBroadcastSend(s)
  \/ CustomerCleanup(s) \/ CustomerCloses(s)

TimerStep(s) ==
  \/ TimerFire(s) \/ TimerNotifyUser(s) \/ TimerBroadcastAcquire(s)
  \/ TimerBroadcastSend(s)

AgentStep(a) ==
  \/ AgentConnect(a) \/ AgentHeartbeat(a)
  \/ \E sid \in SessionIds :
       \/ AcceptSession(a, sid) \/ AgentDecline(a, sid) \/ AgentLeave(a, sid)
       \/ AgentRequestCapture(a, sid) \/ AgentCancelCapture(a, sid)
       \/ \E type \in WebrtcTypes : AgentWebrtc(a, sid, type)
  \/ AgentCaptureAck(a) \/ AgentAssign(a) \/ AgentNotifyUser(a) \/ AgentNotifyAgent(a)
  \/ AgentBroadcastAcquire(a) \/ AgentBroadcastSend(a)
  \/ AgentCleanup(a) \/ AgentCloses(a)

Next ==
  \/ \E c \in Customers : start_vkyc(c)
  \/ \E s \in SessionIds : CustomerStep(s) \/ TimerStep(s)
  \/ \E a \in Agents : AgentStep(a)
  \/ cleanup_stale_connections
  \/ SweepDisconnect
  \/ Tick(StaleTimeoutSeconds + SweepIntervalSeconds,
          MaxTicks * (StaleTimeoutSeconds + SweepIntervalSeconds))

Spec == Init /\ [][Next]_vars

(* ---------------------------- scenarios ------------------------------- *)
(* the state after start_vkyc for each customer of S (session i belongs to *)
(* customer i), each customer's socket connected, and the agents of A      *)
(* connected, all at time 0                                                *)
Connected(S, A, st) ==
  /\ manager = [ConnectionManager EXCEPT
        !.active_connections = [k \in {str(s) : s \in S} |-> [last_heartbeat |-> 0]],
        !.recordings = {str(s) : s \in S},
        !.agent_connections = [a \in A |-> [last_heartbeat |-> 0]]]
  /\ vkyc_sessions = [i \in 1..Cardinality(S) |-> [customer_id |-> i, status |-> st]]
  /\ user = [s \in SessionIds |-> IF s \in S THEN UserRecv ELSE UserIdle]
  /\ agent = [a \in Agents |-> IF a \in A THEN AgentRecv ELSE AgentIdle]
  /\ timer = [s \in SessionIds |-> TimerIdle]
  /\ sweep = SweepIdle
  /\ ws_user = [s \in SessionIds |-> IF s \in S THEN "open" ELSE "closed"]
  /\ ws_agent = [a \in Agents |-> IF a \in A THEN "open" ELSE "closed"]
  /\ now = 0
  /\ outbox = {}

(* The assignment table under ready_for_agent, accept_session,             *)
(* leave_session, user_left, closed transports, the sweep and the expiry   *)
(* timers.  Two populations: one session and every agent, where the clock  *)
(* reaches the expiry time (timers fire, connections go stale); every      *)
(* session and one agent, where the clock stays at 0.                      *)
InitPair ==
  /\ \/ Connected({1}, Agents, "started")
     \/ Connected(SessionIds, {"a1"}, "started")
  /\ observe = "none"

NextPair ==
  \/ \E s \in SessionIds :
       \/ ReadyForAgent(s) \/ CustomerNotifyUser(s)
       \/ CustomerBroadcastAcquire(s) \/ CustomerBroadcastSend(s)
       \/ CustomerUserLeft(s) \/ CustomerNotifyAgent(s) \/ CustomerDisconnect(s)
       \/ CustomerCloses(s) \/ CustomerCleanup(s)
       \/ TimerStep(s)
  \/ \E a \in Agents :
       \/ \E sid \in SessionIds : AcceptSession(a, sid) \/ AgentLeave(a, sid)
       \/ AgentAssign(a) \/ AgentNotifyUser(a) \/ AgentNotifyAgent(a)
       \/ AgentBroadcastAcquire(a) \/ AgentBroadcastSend(a)
       \/ AgentCloses(a) \/ AgentCleanup(a)
  \/ cleanup_stale_connections
  \/ SweepDisconnect
  \/ Len(vkyc_sessions) = 1 /\ Tick(SessionExpirySeconds, Horizon)

SpecPair == InitPair /\ [][NextPair]_vars

(* Two agents answer the same waiting session.  The customer of session 1  *)
(* sends ready_for_agent; once the session has left the started status     *)
(* each agent sends accept_session for it once.  Every message delivered   *)
(* is kept.  The broadcast of new_waiting_session holds the registry lock  *)
(* across its sends, so both agents can pass the status check before       *)
(* either is assigned.                                                     *)
InitRace == Connected({1}, Agents, "started") /\ observe = "all"

Accepted(a) == Msg(AgentTask(a), "session_accepted", 1) \in outbox
Refused(a) == \E m \in outbox : m.to = AgentTask(a) /\ m.type = "error"
Assigned(a) ==
  a \in DOMAIN manager.agent_sessions /\ manager.agent_sessions[a] = 1

NextRace ==
  \/ ReadyForAgent(1) \/ CustomerNotifyUser(1) \/ CustomerBroadcastSend(1)
  \/ \E a \in Agents :
       \/ Status(1) # "started" /\ ~Accepted(a) /\ ~Refused(a) /\ AgentAccept(a, 1)
       \/ AgentAssign(a) \/ AgentNotifyUser(a) \/ AgentNotifyAgent(a)
       \/ AgentBroadcastAcquire(a) \/ AgentBroadcastSend(a)

SpecRace == InitRace /\ [][NextRace]_vars

(* One customer starts sessions while an agent serves them: the agent is   *)
(* connected, the customer has no session yet.                             *)
InitStart == Connected({}, {"a1"}, "started") /\ observe = "last"

NextStart ==
  \/ start_vkyc(1)
  \/ \E s \in SessionIds :
       \/ CustomerConnect(s) \/ ReadyForAgent(s) \/ CustomerNotifyUser(s)
       \/ CustomerBroadcastAcquire(s) \/ CustomerBroadcastSend(s)
       \/ AcceptSession("a1", s)
  \/ AgentAssign("a1") \/ AgentNotifyUser("a1") \/ AgentNotifyAgent("a1")
  \/ AgentBroadcastAcquire("a1") \/ AgentBroadcastSend("a1")

SpecStart == InitStart /\ [][NextStart]_vars

(* Heartbeats while the clock advances in sweep intervals: one session,    *)
(* one agent, the sweep, ready_for_agent and accept_session.               *)
InitBeat == Connected({1}, {"a1"}, "started") /\ observe = "none"

NextBeat ==
  \/ CustomerHeartbeat(1) \/ AgentHeartbeat("a1")
  \/ ReadyForAgent(1) \/ CustomerNotifyUser(1) \/ CustomerBroadcastSend(1)
  \/ AcceptSession("a1", 1) \/ AgentNotifyUser("a1") \/ AgentNotifyAgent("a1")
  \/ AgentBroadcastSend("a1")
  \/ cleanup_stale_connections
  \/ Tick(SweepIntervalSeconds, StaleTimeoutSeconds + SweepIntervalSeconds)

SpecBeat == InitBeat /\ [][NextBeat]_vars

(* A call in progress beside a customer who has just started: session 1   *)
(* is in_progress with agent a1 (its two expiry timers sleep), session 2   *)
(* is started, both customers and both agents are connected.  Transports   *)
(* close or go silent, customers ask for an agent, the sweep runs.  Every  *)
(* step the server takes on its own is taken eventually: a handler's       *)
(* pending send, its cleanup after the receive ends (close, or the 60 s    *)
(* receive timeout and the unanswered ping), and the sweep that            *)
(* cleanup_task starts every SweepIntervalSeconds.                         *)
InitLive ==
  /\ manager = [ConnectionManager EXCEPT
        !.active_connections = [k \in {str(1), str(2)} |-> [last_heartbeat |-> 0]],
        !.recordings = {str(1), str(2)},
        !.agent_connections = [a \in Agents |-> [last_heartbeat |-> 0]],
        !.agent_sessions = [a \in {"a1"} |-> 1],
        !.session_agents = [s \in {1} |-> "a1"]]
  /\ vkyc_sessions = <<[customer_id |-> 1, status |-> "in_progress"],
                       [customer_id |-> 2, status |-> "started"]>>
  /\ user = [s \in SessionIds |-> IF s \in {1, 2} THEN UserRecv ELSE UserIdle]
  /\ agent = [a \in Agents |-> AgentRecv]
  /\ timer = [s \in SessionIds |->
               IF s = 1 THEN [sleeping |-> create_task(create_task(<<>>, 0), 0),
                              pc |-> "idle"]
               ELSE TimerIdle]
  /\ sweep = SweepIdle
  /\ ws_user = [s \in SessionIds |-> IF s \in {1, 2} THEN "open" ELSE "closed"]
  /\ ws_agent = [a \in Agents |-> "open"]
  /\ now = 0
  /\ outbox = {}
  /\ observe = "none"

NextLive ==
  \/ \E s \in SessionIds :
       \/ CustomerDrops(s) \/ CustomerCloses(s) \/ CustomerCleanup(s)
       \/ ReadyForAgent(s) \/ CustomerNotifyUser(s) \/ CustomerBroadcastSend(s)
  \/ \E a \in Agents : AgentCloses(a) \/ AgentCleanup(a)
  \/ cleanup_stale_connections
  \/ Tick(StaleTimeoutSeconds + SweepIntervalSeconds,
          StaleTimeoutSeconds + SweepIntervalSeconds)

Fairness ==
  /\ \A s \in SessionIds :
        /\ WF_vars(CustomerCleanup(s))
        /\ WF_vars(CustomerNotifyUser(s))
        /\ WF_vars(CustomerBroadcastSend(s))
  /\ \A a \in Agents : WF_vars(AgentCleanup(a))
  /\ WF_vars(cleanup_stale_connections)

SpecLive == InitLive /\ [][NextLive]_vars /\ Fairness

(* One session served to its end while the clock reaches the expiry time:  *)
(* the customer asks for an agent, completes or reports an error, the      *)
(* agents accept and leave, the timers the handlers started wake up.  The  *)
(* messages of the last step are kept.                                     *)
InitExpiry == Connected({1}, Agents, "started") /\ observe = "last"

NextExpiry ==
  \/ ReadyForAgent(1) \/ CustomerNotifyUser(1)
  \/ CustomerBroadcastAcquire(1) \/ CustomerBroadcastSend(1)
  \/ CustomerKycComplete(1) \/ CustomerNotifyAgent(1) \/ CustomerError(1)
  \/ \E a \in Agents :
       \/ AcceptSession(a, 1) \/ AgentAssign(a) \/ AgentLeave(a, 1)
       \/ AgentNotifyUser(a) \/ AgentNotifyAgent(a)
       \/ AgentBroadcastAcquire(a) \/ AgentBroadcastSend(a)
  \/ TimerStep(1)
  \/ Tick(SessionExpirySeconds, Horizon)

SpecExpiry == InitExpiry /\ [][NextExpiry]_vars

(* The call of InitLive when its expiry timers wake up: the clock reaches  *)
(* the expiry time, transports close, the customer of session 2 asks for   *)
(* an agent.  A timer that woke up takes each of its steps eventually, as  *)
(* do the handlers.                                                        *)
InitExpiryLive ==
  /\ manager = [ConnectionManager EXCEPT
        !.active_connections = [k \in {str(1), str(2)} |-> [last_heartbeat |-> 0]],
        !.recordings = {str(1), str(2)},
        !.agent_connections = [a \in Agents |-> [last_heartbeat |-> 0]],
        !.agent_sessions = [a \in {"a1"} |-> 1],
        !.session_agents = [s \in {1} |-> "a1"]]
  /\ vkyc_sessions = <<[customer_id |-> 1, status |-> "in_progress"],
                       [customer_id |-> 2, status |-> "started"]>>
  /\ user = [s \in SessionIds |-> IF s \in {1, 2} THEN UserRecv ELSE UserIdle]
  /\ agent = [a \in Agents |-> AgentRecv]
  /\ timer = [s \in SessionIds |->
               IF s = 1 THEN [sleeping |-> create_task(create_task(<<>>, 0), 0),
                              pc |-> "idle"]
               ELSE TimerIdle]
  /\ sweep = SweepIdle
  /\ ws_user = [s \in SessionIds |-> IF s \in {1, 2} THEN "open" ELSE "closed"]
  /\ ws_agent = [a \in Agents |-> "open"]
  /\ now = 0
  /\ outbox = {}
  /\ observe = "last"

NextExpiryLive ==
  \/ \E s \in SessionIds : CustomerCloses(s) \/ CustomerCleanup(s)
  \/ ReadyForAgent(2) \/ CustomerNotifyUser(2)
  \/ CustomerBroadcastAcquire(2) \/ CustomerBroadcastSend(2)
  \/ \E a \in Agents : AgentCloses(a) \/ AgentCleanup(a)
  \/ TimerStep(1)
  \/ Tick(SessionExpirySeconds, Horizon)

FairnessExpiry ==
  /\ WF_vars(TimerNotifyUser(1))
  /\ WF_vars(TimerBroadcastAcquire(1))
  /\ WF_vars(TimerBroadcastSend(1))
  /\ WF_vars(CustomerNotifyUser(2))
  /\ WF_vars(CustomerBroadcastAcquire(2))
  /\ WF_vars(CustomerBroadcastSend(2))
  /\ \A s \in SessionIds : WF_vars(CustomerCleanup(s))
  /\ \A a \in Agents : WF_vars(AgentCleanup(a))

SpecExpiryLive == InitExpiryLive /\ [][NextExpiryLive]_vars /\ FairnessExpiry

(* Transports that close under the handlers: one session and two agents,   *)
(* ready_for_agent, accept_session and leave_session, while the customer   *)
(* leaves, or a socket closes at any point and its handler cleans up.  The *)
(* clock stays at 0; the messages of the last step are kept.               *)
InitFail == Connected({1}, Agents, "started") /\ observe = "last"

NextFail ==
  \/ ReadyForAgent(1) \/ CustomerNotifyUser(1) \/ CustomerBroadcastSend(1)
  \/ CustomerUserLeft(1) \/ CustomerNotifyAgent(1) \/ CustomerDisconnect(1)
  \/ CustomerCloses(1) \/ CustomerCleanup(1)
  \/ \E a \in Agents :
       \/ AcceptSession(a, 1) \/ AgentAssign(a) \/ AgentLeave(a, 1)
       \/ AgentNotifyUser(a) \/ AgentNotifyAgent(a) \/ AgentBroadcastSend(a)
       \/ AgentCloses(a) \/ AgentCleanup(a)

SpecFail == InitFail /\ [][NextFail]_vars

(* Two calls in progress: session 1 with agent a1 and session 2 with agent *)
(* a2, each with the two expiry timers its handlers started.  Customers    *)
(* leave, agents leave, sockets close, handlers clean up.  The clock stays *)
(* at 0.                                                                   *)
InitCalls ==
  /\ manager = [ConnectionManager EXCEPT
        !.active_connections = [k \in {str(1), str(2)} |-> [last_heartbeat |-> 0]],
        !.recordings = {str(1), str(2)},
        !.agent_connections = [a \in Agents |-> [last_heartbeat |-> 0]],
        !.agent_sessions = [a \in Agents |-> IF a = "a1" THEN 1 ELSE 2],
        !.session_agents = [s \in {1, 2} |-> IF s = 1 THEN "a1" ELSE "a2"]]
  /\ vkyc_sessions = <<[customer_id |-> 1, status |-> "in_progress"],
                       [customer_id |-> 2, status |-> "in_progress"]>>
  /\ user = [s \in SessionIds |-> IF s \in {1, 2} THEN UserRecv ELSE UserIdle]
  /\ agent = [a \in Agents |-> AgentRecv]
  /\ timer = [s \in SessionIds |->
               IF s \in {1, 2}
               THEN [sleeping |-> create_task(create_task(<<>>, 0), 0),
                     pc |-> "idle"]
               ELSE TimerIdle]
  /\ sweep = SweepIdle
  /\ ws_user = [s \in SessionIds |-> IF s \in {1, 2} THEN "open" ELSE "closed"]
  /\ ws_agent = [a \in Agents |-> "open"]
  /\ now = 0
  /\ outbox = {}
  /\ observe = "last"

NextCalls ==
  \/ \E s \in SessionIds :
       \/ CustomerUserLeft(s) \/ CustomerNotifyAgent(s) \/ CustomerDisconnect(s)
       \/ CustomerCloses(s) \/ CustomerCleanup(s)
  \/ \E a \in Agents :
       \/ \E sid \in SessionIds : AgentLeave(a, sid)
       \/ AgentNotifyUser(a) \/ AgentNotifyAgent(a)
       \/ AgentBroadcastAcquire(a) \/ AgentBroadcastSend(a)
       \/ AgentCloses(a) \/ AgentCleanup(a)

SpecCalls == InitCalls /\ [][NextCalls]_vars

(* Signalling during a call: one session and two agents; the customer     *)
(* asks for an agent, an agent accepts and leaves, and either agent sends  *)
(* WebRTC signalling and document capture requests naming the session.     *)
(* The customer's socket may close.  The messages of the last step are     *)
(* kept.                                                                   *)
InitSignal == Connected({1}, Agents, "started") /\ observe = "last"

NextSignal ==
  \/ ReadyForAgent(1) \/ CustomerNotifyUser(1) \/ CustomerBroadcastSend(1)
  \/ CustomerCloses(1) \/ CustomerCleanup(1)
  \/ \E a \in Agents :
       \/ AcceptSession(a, 1) \/ AgentAssign(a) \/ AgentLeave(a, 1)
       \/ AgentNotifyUser(a) \/ AgentNotifyAgent(a) \/ AgentBroadcastSend(a)
       \/ \E type \in WebrtcTypes : AgentWebrtc(a, 1, type)
       \/ AgentRequestCapture(a, 1) \/ AgentCaptureAck(a)
       \/ AgentCancelCapture(a, 1)

SpecSignal == InitSignal /\ [][NextSignal]_vars

(* A session offered to two agents whose sockets may close: the customer   *)
(* asks for an agent; the agents accept, decline and leave; an agent's     *)
(* socket closes at any point and its handler cleans up.  The customer     *)
(* stays connected.  A handler that has taken a frame takes each of its    *)
(* further steps eventually; a handler waiting for the registry lock gets  *)
(* it when it is released again and again (asyncio.Lock wakes its waiters  *)
(* in order).  The messages of the last step are kept.                     *)
InitServe == Connected({1}, Agents, "started") /\ observe = "last"

NextServe ==
  \/ ReadyForAgent(1) \/ CustomerNotifyUser(1)
  \/ CustomerBroadcastAcquire(1) \/ CustomerBroadcastSend(1)
  \/ \E a \in Agents :
       \/ AcceptSession(a, 1) \/ AgentAssign(a)
       \/ AgentDecline(a, 1) \/ AgentLeave(a, 1)
       \/ AgentNotifyUser(a) \/ AgentNotifyAgent(a)
       \/ AgentBroadcastAcquire(a) \/ AgentBroadcastSend(a)
       \/ AgentCloses(a) \/ AgentCleanup(a)

FairnessServe ==
  /\ WF_vars(CustomerNotifyUser(1))
  /\ SF_vars(CustomerBroadcastAcquire(1))
  /\ WF_vars(CustomerBroadcastSend(1))
  /\ \A a \in Agents :
        /\ SF_vars(AgentAssign(a))
        /\ WF_vars(AgentNotifyUser(a))
        /\ WF_vars(AgentNotifyAgent(a))
        /\ SF_vars(AgentBroadcastAcquire(a))
        /\ WF_vars(AgentBroadcastSend(a))
        /\ WF_vars(AgentCleanup(a))

SpecServe == InitServe /\ [][NextServe]_vars /\ FairnessServe

(* Requests that name a session the database does not hold: session 1 is  *)
(* served as usual while the agents also send accept_session and           *)
(* decline_session for id 2, which no row has.  All sockets stay open; the *)
(* messages of the last step are kept.                                     *)
UnknownId == 2

InitUnknown == Connected({1}, Agents, "started") /\ observe = "last"

NextUnknown ==
  \/ ReadyForAgent(1) \/ CustomerNotifyUser(1)
  \/ CustomerBroadcastAcquire(1) \/ CustomerBroadcastSend(1)
  \/ \E a \in Agents :
       \/ \E sid \in {1, UnknownId} :
            AcceptSession(a, sid) \/ AgentDecline(a, sid)
       \/ AgentAssign(a) \/ AgentLeave(a, 1)
       \/ AgentNotifyUser(a) \/ AgentNotifyAgent(a)
       \/ AgentBroadcastAcquire(a) \/ AgentBroadcastSend(a)

SpecUnknown == InitUnknown /\ [][NextUnknown]_vars

(* Connections made over time: a client has connected for session id 2    *)
(* before any session was started, so its entry is registered and its      *)
(* socket was closed by the server.  Customers start sessions, customers   *)
(* and agents connect, send heartbeats, close and are cleaned up, while    *)
(* the clock advances.                                                     *)
InitJoin ==
  /\ manager = connect_user(ConnectionManager, str(2), 0)
  /\ vkyc_sessions = <<>>
  /\ user = [s \in SessionIds |-> UserIdle]
  /\ agent = [a \in Agents |-> AgentIdle]
  /\ timer = [s \in SessionIds |-> TimerIdle]
  /\ sweep = SweepIdle
  /\ ws_user = [s \in SessionIds |-> "closed"]
  /\ ws_agent = [a \in Agents |-> "closed"]
  /\ now = 0
  /\ outbox = {}
  /\ observe = "none"

NextJoin ==
  \/ \E c \in Customers : start_vkyc(c)
  \/ \E s \in SessionIds :
       \/ CustomerConnect(s) \/ CustomerHeartbeat(s)
       \/ CustomerCloses(s) \/ CustomerCleanup(s)
  \/ \E a \in Agents :
       \/ AgentConnect(a) \/ AgentHeartbeat(a)
       \/ AgentCloses(a) \/ AgentCleanup(a)
  \/ Tick(SweepIntervalSeconds, MaxTicks * StaleTimeoutSeconds)

SpecJoin == InitJoin /\ [][NextJoin]_vars

(* Documents during a call: session 1 with its customer and two agents;   *)
(* the customer asks for an agent, sends captured documents and asks for   *)
(* DigiLocker verification, whatever the services answer; the agents       *)
(* accept and leave.  All sockets stay open; the messages of the last step *)
(* are kept.                                                               *)
InitDocs == Connected({1}, Agents, "started") /\ observe = "last"

NextDocs ==
  \/ ReadyForAgent(1) \/ CustomerNotifyUser(1)
  \/ CustomerBroadcastSend(1)
  \/ \E doc_type \in DocTypes : \E r \in OcrResults :
       CustomerDocumentCaptured(1, doc_type, r)
  \/ \E r \in DigilockerResults : CustomerVerifyDigilocker(1, r)
  \/ CustomerResultUser(1) \/ CustomerResultAgent(1)
  \/ \E a \in Agents :
       \/ AcceptSession(a, 1) \/ AgentAssign(a) \/ AgentLeave(a, 1)
       \/ AgentNotifyUser(a) \/ AgentNotifyAgent(a)
       \/ AgentBroadcastSend(a)

SpecDocs == InitDocs /\ [][NextDocs]_vars

(* A customer who connects twice: session 1 is waiting for an agent (its   *)
(* ready_for_agent was handled at time 0), the customer opens a second     *)
(* connection for it and the first one ends; meanwhile the agents accept,  *)
(* leave and close.                                                        *)
InitTwice ==
  /\ manager = add_waiting_session(
        connect_agent(connect_agent(connect_user(ConnectionManager, str(1), 0),
                                    "a1", 0), "a2", 0), 1)
  /\ vkyc_sessions = <<[customer_id |-> 1, status |-> "waiting_for_agent"]>>
  /\ user = [s \in SessionIds |-> IF s = 1 THEN UserRecv ELSE UserIdle]
  /\ agent = [a \in Agents |-> AgentRecv]
  /\ timer = [s \in SessionIds |->
               IF s = 1 THEN [sleeping |-> create_task(<<>>, 0), pc |-> "idle"]
               ELSE TimerIdle]
  /\ sweep = SweepIdle
  /\ ws_user = [s \in SessionIds |-> IF s = 1 THEN "open" ELSE "closed"]
  /\ ws_agent = [a \in Agents |-> "open"]
  /\ now = 0
  /\ outbox = {}
  /\ observe = "none"

NextTwice ==
  \/ CustomerSecondConnect(1) \/ SupersededCleanup(1) \/ CustomerHeartbeat(1)
  \/ \E a \in Agents :
       \/ AcceptSession(a, 1) \/ AgentLeave(a, 1)
       \/ AgentNotifyUser(a) \/ AgentNotifyAgent(a) \/ AgentBroadcastSend(a)
       \/ AgentCloses(a) \/ AgentCleanup(a)

SpecTwice == InitTwice /\ [][NextTwice]_vars

(* The session of InitExpiry with a clock that advances in half expiry     *)
(* times, so that an accept can come between a ready_for_agent and the      *)
(* wake-up of the timer it started.                                         *)
NextHalf ==
  \/ ReadyForAgent(1) \/ CustomerNotifyUser(1)
  \/ CustomerBroadcastAcquire(1) \/ CustomerBroadcastSend(1)
  \/ \E a \in Agents :
       \/ AcceptSession(a, 1) \/ AgentAssign(a) \/ AgentLeave(a, 1)
       \/ AgentNotifyUser(a) \/ AgentNotifyAgent(a)
       \/ AgentBroadcastAcquire(a) \/ AgentBroadcastSend(a)
  \/ TimerStep(1)
  \/ Tick(SessionExpirySeconds \div 2, Horizon)

SpecHalf == InitExpiry /\ [][NextHalf]_vars

(* ------------------------------ claims -------------------------------- *)
(* C1: when two connected, unassigned agents send accept_session for the   *)
(* same waiting session, in any interleaving, exactly one of them gets the *)
(* assignment and is sent session_accepted; the other gets no assignment   *)
(* and is sent an error.                                                   *)
AcceptIsExclusive ==
  /\ \A a \in Agents : \A b \in Agents \ {a} :
        ~(Assigned(a) /\ Assigned(b)) /\ ~(Accepted(a) /\ Accepted(b))
  /\ \A a \in Agents : Accepted(a) => Assigned(a) /\ ~Refused(a)
  /\ \A a \in Agents : Refused(a) => ~Assigned(a)
  /\ (\A a \in Agents : Accepted(a) \/ Refused(a))
       => Cardinality({a \in Agents : Accepted(a)}) = 1

(* both agents passed the status check, a1 won the lock and was sent        *)
(* session_accepted, a2 found the session taken                             *)
RaceLost ==
  /\ Accepted("a1") /\ Assigned("a1")
  /\ Error("a2", "Could not assign agent to session") \in outbox
  /\ ~Assigned("a2")

(* C2: in every reachable state the assignment table is a one-to-one       *)
(* pairing: agent_sessions[a] = s exactly when session_agents[s] = a, so   *)
(* there is no half-pair, no agent with two sessions and no session with   *)
(* two agents.                                                             *)
AssignmentIsPairing ==
  /\ \A a \in DOMAIN manager.agent_sessions :
        /\ manager.agent_sessions[a] \in DOMAIN manager.session_agents
        /\ manager.session_agents[manager.agent_sessions[a]] = a
  /\ \A s \in DOMAIN manager.session_agents :
        /\ manager.session_agents[s] \in DOMAIN manager.agent_sessions
        /\ manager.agent_sessions[manager.session_agents[s]] = s

(* the sweep has evicted the stale agent a1 (its handler still waits for a  *)
(* message), the expiry time is past, and a2 and session 1 are a pair       *)
PairAfterSweep ==
  /\ now >= SessionExpirySeconds
  /\ "a1" \notin DOMAIN manager.agent_connections
  /\ agent["a1"].pc = "recv" /\ ws_agent["a1"] = "open"
  /\ DOMAIN manager.agent_sessions = {"a2"} /\ manager.agent_sessions["a2"] = 1
  /\ DOMAIN manager.session_agents = {1} /\ manager.session_agents[1] = "a2"
  /\ Status(1) = "in_progress"

(* C3: in every reachable state no session id is both in the waiting set   *)
(* and a key of session_agents.                                            *)
WaitingNotAssigned ==
  manager.waiting_sessions \cap DOMAIN manager.session_agents = {}

(* C4: in every reachable state every session id in the waiting set has    *)
(* status waiting_for_agent.                                               *)
WaitingHasWaitingStatus ==
  \A s \in manager.waiting_sessions :
    Exists(s) /\ Status(s) = "waiting_for_agent"

(* The three conditions of a session: waiting, assigned, not active.       *)
InWaiting(s) == s \in manager.waiting_sessions
HasAssignment(s) == s \in DOMAIN manager.session_agents
NonActive(s) == Status(s) \notin ActiveStatuses

(* C5: for every session, in every reachable state, exactly one of: it is  *)
(* in the waiting set; it has an assignment; its status is not active.     *)
ExactlyOneOfThree ==
  \A s \in 1..Len(vkyc_sessions) :
    /\ InWaiting(s) \/ HasAssignment(s) \/ NonActive(s)
    /\ ~(InWaiting(s) /\ HasAssignment(s))
    /\ ~(InWaiting(s) /\ NonActive(s))
    /\ ~(HasAssignment(s) /\ NonActive(s))

(* two of the three at once: a session with status waiting_for_agent that  *)
(* is in the waiting set and has an assignment                             *)
TwoOfThreeAtOnce ==
  \E s \in 1..Len(vkyc_sessions) :
    /\ InWaiting(s) /\ HasAssignment(s)
    /\ Status(s) = "waiting_for_agent"

(* The sessions of customer c with an active status.                       *)
ActiveOf(c) ==
  {i \in 1..Len(vkyc_sessions) :
     vkyc_sessions[i].customer_id = c /\ vkyc_sessions[i].status \in ActiveStatuses}

(* C6: starting a session for a customer who has an active session returns *)
(* the id of that session and creates no session record.                   *)
StartIsIdempotent ==
  [][\A c \in Customers :
       start_vkyc(c) /\ ActiveOf(c) # {}
         => /\ vkyc_sessions' = vkyc_sessions
            /\ \E i \in ActiveOf(c) :
                 outbox' = {Msg(HttpClient(c), "session_id", i)}]_vars

(* C7: in every reachable state each customer has at most one session with *)
(* an active status.                                                       *)
AtMostOneActive == \A c \in Customers : Cardinality(ActiveOf(c)) <= 1

(* C8: a heartbeat taken from a registered customer or agent sets that     *)
(* connection's last_heartbeat to the current time and changes nothing     *)
(* else: no status, assignment, waiting set, timer; no message is sent.    *)
HeartbeatRefreshes ==
  [][/\ \A s \in SessionIds :
          CustomerHeartbeat(s) /\ UserRegistered(manager, s)
            => manager' = [manager EXCEPT
                 !.active_connections[str(s)].last_heartbeat = now]
     /\ \A a \in Agents :
          AgentHeartbeat(a) /\ AgentRegistered(manager, a)
            => manager' = [manager EXCEPT
                 !.agent_connections[a].last_heartbeat = now]
     /\ (\E s \in SessionIds : CustomerHeartbeat(s))
          \/ (\E a \in Agents : AgentHeartbeat(a))
            => UNCHANGED <<vkyc_sessions, timer, sweep, ws_user, ws_agent,
                           now, outbox>>]_vars

(* A registered connection whose last_heartbeat is past the threshold.     *)
StaleUser(s) ==
  UserRegistered(manager, s) /\ str(s) \in StaleUsers(manager, now)
StaleAgent(a) ==
  AgentRegistered(manager, a) /\ a \in StaleAgents(manager, now)

(* C9: a registered connection whose last_heartbeat is more than           *)
(* StaleTimeoutSeconds old does not stay so: the sweep removes it from the *)
(* registry (unless a send refreshed it first).                            *)
StaleIsEvicted ==
  /\ \A s \in SessionIds : StaleUser(s) ~> ~StaleUser(s)
  /\ \A a \in Agents : StaleAgent(a) ~> ~StaleAgent(a)

(* A silent customer in an in_progress session, and the end the session    *)
(* is to reach.                                                            *)
DroppedInProgress(s) ==
  Exists(s) /\ ws_user[s] = "dropped" /\ Status(s) = "in_progress"
SessionEnded(s) ==
  /\ ~UserRegistered(manager, s)
  /\ Status(s) = "disconnected"
  /\ s \notin DOMAIN manager.session_agents
  /\ \A a \in DOMAIN manager.agent_sessions : manager.agent_sessions[a] # s

(* C10: if a customer's connection goes silent while its session is        *)
(* in_progress, eventually the connection is out of the registry, the      *)
(* status is disconnected and no agent holds an assignment to the session. *)
DropEndsSession ==
  \A s \in SessionIds : DroppedInProgress(s) ~> SessionEnded(s)

ExpiryRunsToEnd ==
  /\ [][/\ TimerFire(1) /\ Status(1) \in {"waiting_for_agent", "in_progress"}
             => /\ Status(1)' = "expired" /\ outbox' = {}
                /\ manager' = manager /\ timer'[1].pc = "notify_user"
        /\ TimerNotifyUser(1)
             => /\ outbox' = UserMsg(manager, 1, "session_expired")
                /\ timer'[1].pc \in {"bcast_wait", "bcast_send"}
        /\ TimerBroadcastSend(1)
             => /\ outbox' = BroadcastMsgs(manager, "session_expired", 1)
                /\ ~UserRegistered(manager', 1)
                /\ 1 \notin DOMAIN manager'.session_agents
                /\ timer'[1].pc = "idle"]_vars
  /\ timer[1].pc = "notify_user"
       ~> /\ timer[1].pc = "idle" /\ ~UserRegistered(manager, 1)
          /\ 1 \notin DOMAIN manager.session_agents

(* C13: one expiry timer is scheduled by each handler run that takes the   *)
(* session into waiting_for_agent or in_progress (ready_for_agent, a       *)
(* successful accept_session, a successful leave_session), when the run    *)
(* returns to the receive loop, and by no other step.                      *)
TimerPerTransition ==
  [][LET scheduled == Len(timer'[1].sleeping) - Len(timer[1].sleeping)
         returns ==
           \/ CustomerNotifyUser(1) /\ user[1].msg = "ready_for_agent"
           \/ \E a \in Agents :
                /\ AgentBroadcastSend(a) /\ agent'[a].pc = "recv"
                /\ agent[a].msg \in {"accept_session", "leave_session"}
     IN /\ returns => scheduled = 1
        /\ scheduled > 0 => returns]_vars

(* The registry, the recorders, the assignment table and the waiting set.  *)
Tables(m) ==
  <<m.active_connections, m.agent_connections, m.recordings,
    m.agent_sessions, m.session_agents, m.waiting_sessions>>

DisconnectIsIdempotent ==
  [][/\ \A s \in SessionIds \cup {-1} :
          disconnect_user(disconnect_user(manager', str(s)), str(s))
            = disconnect_user(manager', str(s))
     /\ \A a \in Agents :
          disconnect_agent(disconnect_agent(manager', a), a)
            = disconnect_agent(manager', a)
     /\ user[1] # UserIdle /\ user'[1] = UserIdle
          => disconnect_user(manager', str(1)) = manager'
     /\ \A a \in Agents :
          agent[a] # AgentIdle /\ agent'[a] = AgentIdle
            => disconnect_agent(manager', a) = manager'
     /\ (CustomerUserLeft(1) \/ CustomerDisconnect(1)) /\ user'[1] = UserIdle
          => Tables(manager') = Tables(disconnect_user(manager, str(1)))]_vars

(* user_left from a customer nobody accepted: the handler made both calls  *)
(* and ended; the session is still in the waiting set                      *)
LeftWhileWaiting ==
  /\ user[1] = UserIdle /\ Status(1) = "disconnected"
  /\ 1 \in manager.waiting_sessions /\ Len(timer[1].sleeping) = 1
  /\ ~UserRegistered(manager, 1)

(* What disconnect_user(s) and disconnect_agent(a) are to leave of m0 in   *)
(* m1: the party's entry (and recorder) gone, the party and the party it   *)
(* was paired with out of the assignment table, the rest as it was.        *)
UserGone(m0, m1, s) ==
  LET paired == IF s \in DOMAIN m0.session_agents
                THEN {m0.session_agents[s]} ELSE {}
  IN /\ m1.active_connections = Del(m0.active_connections, str(s))
     /\ m1.recordings = m0.recordings \ {str(s)}
     /\ m1.agent_connections = m0.agent_connections
     /\ m1.waiting_sessions = m0.waiting_sessions
     /\ s \notin DOMAIN m1.session_agents
     /\ \A a \in DOMAIN m1.agent_sessions : a \notin paired /\ m1.agent_sessions[a] # s
     /\ \A x \in DOMAIN m0.session_agents \ {s} :
          x \in DOMAIN m1.session_agents /\ m1.session_agents[x] = m0.session_agents[x]
     /\ \A a \in DOMAIN m0.agent_sessions \ paired :
          a \in DOMAIN m1.agent_sessions /\ m1.agent_sessions[a] = m0.agent_sessions[a]

AgentGone(m0, m1, a) ==
  LET paired == IF a \in DOMAIN m0.agent_sessions
                THEN {m0.agent_sessions[a]} ELSE {}
  IN /\ m1.agent_connections = Del(m0.agent_connections, a)
     /\ m1.active_connections = m0.active_connections
     /\ m1.recordings = m0.recordings
     /\ m1.waiting_sessions = m0.waiting_sessions
     /\ a \notin DOMAIN m1.agent_sessions
     /\ \A x \in DOMAIN m1.session_agents : x \notin paired /\ m1.session_agents[x] # a
     /\ \A b \in DOMAIN m0.agent_sessions \ {a} :
          b \in DOMAIN m1.agent_sessions /\ m1.agent_sessions[b] = m0.agent_sessions[b]
     /\ \A x \in DOMAIN m0.session_agents \ paired :
          x \in DOMAIN m1.session_agents /\ m1.session_agents[x] = m0.session_agents[x]

(* C16: after disconnect_user(s) the session has no entry and no recorder  *)
(* and neither it nor the agent it was paired with is in the assignment    *)
(* table; after disconnect_agent(a) likewise for the agent and its         *)
(* session; the entries and pairs of all other parties are unchanged.      *)
DisconnectFrame ==
  [][/\ \A s \in SessionIds :
          /\ CustomerCleanup(s) => UserGone(manager, manager', s)
          /\ UserGone(manager', disconnect_user(manager', str(s)), s)
     /\ \A a \in Agents :
          /\ AgentCleanup(a) => AgentGone(manager, manager', a)
          /\ AgentGone(manager', disconnect_agent(manager', a), a)]_vars

(* the customer of session 1 is gone and with it the pair of a1, while     *)
(* session 2 and its agent a2 are connected and paired as before           *)
OtherCallUntouched ==
  /\ user[1] = UserIdle /\ Status(1) = "disconnected"
  /\ agent["a1"].pc = "recv" /\ AgentRegistered(manager, "a1")
  /\ DOMAIN manager.agent_sessions = {"a2"} /\ manager.agent_sessions["a2"] = 2
  /\ DOMAIN manager.session_agents = {2} /\ manager.session_agents[2] = "a2"
  /\ UserRegistered(manager, 2) /\ AgentRegistered(manager, "a2")

(* C17: a broadcast sends to every agent whose send does not fail, and     *)
(* these stay registered, whatever sends fail; an agent whose send fails   *)
(* in a broadcast is then out of the registry and of the assignment table. *)
BroadcastContainsFailure ==
  /\ [][CustomerBroadcastSend(2) \/ TimerBroadcastSend(1)
          => \A a \in Agents :
               AgentSendOk(manager, a)
                 => /\ \E m \in outbox' : m.to = AgentTask(a)
                    /\ AgentRegistered(manager', a)]_vars
  /\ \A a \in Agents :
       manager.lock # Free /\ AgentSendFails(manager, a)
         ~> ~AgentRegistered(manager, a) /\ a \notin DOMAIN manager.agent_sessions

(* C18: the registry lock is always released again: whoever holds it, a    *)
(* broadcast with failing sends included, gives it up, so that the tasks   *)
(* waiting for it go on.                                                   *)
LockIsReleased == manager.lock # Free ~> manager.lock = Free

(* The keys of the connection maps, the assignment maps, the waiting set.  *)
Shape(m) ==
  <<DOMAIN m.active_connections, DOMAIN m.agent_connections,
    m.agent_sessions, m.session_agents, m.waiting_sessions>>

(* the task that holds the registry lock takes the step *)
HolderSteps ==
  \/ \E s \in SessionIds : manager.lock = UserTask(s) /\ user'[s] # user[s]
  \/ \E a \in Agents : manager.lock = AgentTask(a) /\ agent'[a] # agent[a]
  \/ \E s \in SessionIds : manager.lock = TimerTask(s) /\ timer'[s] # timer[s]

(* C19: a step that adds or removes a key of the connection maps, changes  *)
(* an assignment map or the waiting set is taken by the task that holds    *)
(* the registry lock: never while another task holds it.                   *)
WritesHoldLock ==
  [][Shape(manager') # Shape(manager)
       => manager.lock = Free \/ HolderSteps]_vars

(* C20: a frame an agent addresses to a session (WebRTC signalling,        *)
(* request or cancel of a document capture) reaches the session's customer *)
(* only if the agent is assigned to that session; from an agent that is    *)
(* not, nothing is sent to the customer and the agent is sent an error.    *)
ForwardNeedsAssignment ==
  [][\A a \in Agents :
       /\ ~OwnsSession(manager, a, 1)
       /\ \/ \E type \in WebrtcTypes : AgentWebrtc(a, 1, type)
          \/ AgentRequestCapture(a, 1)
          \/ AgentCancelCapture(a, 1)
       => /\ \A m \in outbox' : m.to # UserTask(1)
          /\ Error(a, NotAssigned) \in outbox']_vars

(* C21: ready_for_agent from a connected customer whose session is started *)
(* makes the status waiting_for_agent and puts the session into the        *)
(* waiting set; the broadcast sends new_waiting_session to every connected *)
(* agent; and the customer is sent waiting_for_agent.                      *)
ReadyAnnounces ==
  /\ [][/\ ReadyForAgent(1) /\ Status(1) = "started"
             => /\ Status(1)' = "waiting_for_agent"
                /\ 1 \in manager'.waiting_sessions
                /\ user'[1].pc \in {"bcast_wait", "bcast_send"}
        /\ CustomerBroadcastSend(1) /\ user[1].msg = "ready_for_agent"
             => \A a \in Agents :
                  AgentSendOk(manager, a)
                    => Msg(AgentTask(a), "new_waiting_session", 1) \in outbox']_vars
  /\ (/\ user[1].msg = "ready_for_agent" /\ user[1].pc # "recv"
      /\ timer[1].sleeping = <<>>)
       ~> Msg(UserTask(1), "waiting_for_agent", 1) \in outbox

AcceptCommitted(a) ==
  /\ agent[a].pc \in {"recv", "assign_wait"}
  /\ agent'[a].pc = "notify_user" /\ agent'[a].msg = "accept_session"

AcceptRunning(a) ==
  agent[a].msg = "accept_session" /\ agent[a].pc = "notify_user"

AcceptAnswering(a) ==
  agent[a].msg = "accept_session" /\ agent[a].pc = "notify_agent"

(* C22: a successful accept_session for session S by an unassigned agent A *)
(* assigns S to A in both directions, takes S out of the waiting set and   *)
(* makes the status agent_joined; the customer is sent agent_assigned, A   *)
(* is sent session_accepted, every other connected agent is sent           *)
(* session_taken, and the status becomes in_progress.                      *)
AcceptCompletes ==
  /\ [][\A a \in Agents :
          /\ AcceptCommitted(a)
               => /\ OwnsSession(manager', a, 1)
                  /\ manager'.session_agents[1] = a
                  /\ 1 \notin manager'.waiting_sessions
                  /\ Status(1)' = "agent_joined"
          /\ AgentNotifyUser(a) /\ AcceptRunning(a) /\ UserSendOk(manager, 1)
               => Msg(UserTask(1), "agent_assigned", 1) \in outbox'
          /\ AgentNotifyAgent(a) /\ AcceptAnswering(a) /\ AgentSendOk(manager, a)
               => Msg(AgentTask(a), "session_accepted", 1) \in outbox'
          /\ AgentBroadcastSend(a) /\ agent[a].msg = "accept_session"
               => \A b \in Agents \ {a} :
                    AgentSendOk(manager, b)
                      => Msg(AgentTask(b), "session_taken", 1) \in outbox']_vars
  /\ \A a \in Agents :
       AcceptRunning(a) ~> (agent[a].pc = "recv" /\ Status(1) = "in_progress")

LeaveCommitted(a) ==
  /\ agent[a].pc = "recv"
  /\ agent'[a].pc = "notify_user" /\ agent'[a].msg = "leave_session"

LeaveRunning(a, pc) == agent[a].msg = "leave_session" /\ agent[a].pc = pc

(* C23: leave_session for session S from the agent assigned to S removes   *)
(* the assignment in both directions, makes the status waiting_for_agent   *)
(* and puts S into the waiting set again; the customer is sent agent_left  *)
(* and every connected agent session_available; afterwards the agent takes *)
(* requests again, unassigned, so that it can accept another session.      *)
LeaveReturnsSession ==
  /\ [][\A a \in Agents :
          /\ LeaveCommitted(a)
               => /\ a \notin DOMAIN manager'.agent_sessions
                  /\ 1 \notin DOMAIN manager'.session_agents
                  /\ 1 \in manager'.waiting_sessions
                  /\ Status(1)' = "waiting_for_agent"
          /\ (/\ AgentNotifyUser(a) /\ LeaveRunning(a, "notify_user")
              /\ UserSendOk(manager, 1))
               => Msg(UserTask(1), "agent_left", 1) \in outbox'
          /\ AgentBroadcastSend(a) /\ LeaveRunning(a, "bcast_send")
               => \A b \in Agents :
                    AgentSendOk(manager, b)
                      => Msg(AgentTask(b), "session_available", 1) \in outbox']_vars
  /\ \A a \in Agents :
       LeaveRunning(a, "notify_user")
         ~> \/ agent[a].pc = "recv" /\ a \notin DOMAIN manager.agent_sessions
            \/ ws_agent[a] # "open"

(* C24: add_waiting_session answers true and inserts the id when it is     *)
(* absent, answers false and changes nothing when it is present; so a      *)
(* ready_for_agent for a session already in the waiting set goes on to the *)
(* customer's reply without a broadcast, and new_waiting_session is sent   *)
(* only by the broadcast of a ready_for_agent that inserted the id.        *)
ReadyAddsOnce ==
  [][/\ ReadyForAgent(1)
          => IF 1 \in manager.waiting_sessions
             THEN /\ ~add_waiting_session_result(manager, 1)
                  /\ manager' = manager
                  /\ user'[1].pc = "notify_user"
                  /\ outbox' = {}
             ELSE /\ add_waiting_session_result(manager, 1)
                  /\ manager'.waiting_sessions
                       = manager.waiting_sessions \cup {1}
                  /\ user'[1].pc \in {"bcast_wait", "bcast_send"}
     /\ (\E x \in outbox' : x.type = "new_waiting_session")
          => CustomerBroadcastSend(1) /\ user[1].msg = "ready_for_agent"]_vars

ReadyWhileWaiting ==
  /\ user[1].pc = "notify_user" /\ user[1].msg = "ready_for_agent"
  /\ Len(timer[1].sleeping) = 1
  /\ 1 \in manager.waiting_sessions /\ manager.lock = Free
  /\ outbox = {}
  /\ \A a \in Agents : AgentSendOk(manager, a) /\ agent[a].pc = "recv"

Refusal(a) ==
  /\ Error(a, "Session not found") \in outbox'
  /\ Tables(manager') = Tables(manager)
  /\ UNCHANGED <<vkyc_sessions, ws_agent>>
  /\ agent'[a].pc = "recv"

(* C25: accept_session or decline_session from an agent for a session id   *)
(* that no row has is answered with an error sent to that agent, changes   *)
(* no status, assignment or waiting entry, and leaves the agent's          *)
(* connection open and reading.                                            *)
UnknownSessionIsRefused ==
  [][\A a \in Agents :
       AcceptSession(a, UnknownId) \/ AgentDecline(a, UnknownId)
         => Refusal(a)]_vars

(* the same for accept_session alone *)
UnknownAcceptIsRefused ==
  [][\A a \in Agents : AcceptSession(a, UnknownId) => Refusal(a)]_vars

Edges ==
  {<<"started", "waiting_for_agent">>, <<"waiting_for_agent", "agent_joined">>,
   <<"agent_joined", "in_progress">>, <<"in_progress", "completed">>,
   <<"agent_joined", "waiting_for_agent">>, <<"in_progress", "waiting_for_agent">>,
   <<"waiting_for_agent", "expired">>, <<"in_progress", "expired">>,
   <<"waiting_for_agent", "declined">>}

(* C26: every change of a session's status follows an edge of the session  *)
(* state machine: started to waiting_for_agent on ready_for_agent, waiting *)
(* to agent_joined on a successful accept, agent_joined to in_progress,    *)
(* in_progress to completed on kyc_complete, an assigned session back to   *)
(* waiting on leave_session, waiting or in_progress to expired on the      *)
(* timer; completed is reached from in_progress only, and ready_for_agent  *)
(* moves no completed, expired, failed or declined session to waiting.     *)
StatusFollowsEdges ==
  [][Status(1)' # Status(1) /\ Status(1)' # "failed"
       => /\ <<Status(1), Status(1)'>> \in Edges
          /\ Status(1) = "started" => ReadyForAgent(1)
          /\ Status(1)' = "agent_joined"
               => \E a \in Agents : AcceptCommitted(a)
          /\ Status(1)' = "completed" => CustomerKycComplete(1)
          /\ Status(1)' = "expired" => TimerFire(1)
          /\ Status(1) \in {"agent_joined", "in_progress"}
               /\ Status(1)' = "waiting_for_agent"
               => \E a \in Agents : LeaveCommitted(a)]_vars

(* C28: when the customer's transport is lost while the session is         *)
(* started, waiting_for_agent, agent_joined or in_progress, the status is  *)
(* disconnected once the customer's handler has cleaned up.                *)
LostCustomerIsDisconnected ==
  [][(/\ CustomerCleanup(1)
      /\ Status(1) \in {"started", "waiting_for_agent",
                        "agent_joined", "in_progress"})
       => Status(1)' = "disconnected"]_vars

DeclineCommitted(a) ==
  agent[a].msg = "decline_session" /\ agent[a].pc \in {"bcast_wait", "bcast_send"}

Told(type) == Msg(UserTask(1), type, 1) \in outbox

(* C27: the status change made by an accept, a decline or a leave is        *)
(* followed by the customer's notification (agent_assigned,                 *)
(* agent_declined, agent_left) and by the broadcast to the agents           *)
(* (session_taken, session_removed, session_available); a notification is   *)
(* sent only by a handler that has already made its status change.          *)
ChangeIsAnnounced ==
  /\ [][\A a \in Agents :
          /\ Told("agent_assigned")' /\ AgentNotifyUser(a) => AcceptRunning(a)
          /\ Told("agent_left")' /\ AgentNotifyUser(a)
               => LeaveRunning(a, "notify_user")
          /\ Told("agent_declined")' /\ AgentNotifyUser(a)
               => agent[a].msg = "decline_session"]_vars
  /\ \A a \in Agents :
       /\ AcceptRunning(a) ~> Told("agent_assigned")
       /\ AcceptRunning(a) ~> (agent[a].pc = "recv")
       /\ LeaveRunning(a, "notify_user") ~> Told("agent_left")
       /\ LeaveRunning(a, "notify_user") ~> (agent[a].pc = "recv")
       /\ DeclineCommitted(a) ~> (agent[a].pc = "notify_user")
       /\ DeclineCommitted(a) ~> Told("agent_declined")

Others(old, new, k) ==
  /\ DOMAIN new = DOMAIN old \cup {k}
  /\ \A j \in DOMAIN old \ {k} : new[j] = old[j]

Pairs(m) == <<m.agent_sessions, m.session_agents, m.waiting_sessions>>

(* C29: connect_user and connect_agent, applied to any registry the        *)
(* program reaches, leave the key registered with one entry whose last     *)
(* heartbeat is the current time, whatever entry the key had before, and   *)
(* leave the entries of all other keys, and the pairing, as they were.     *)
ConnectReplaces ==
  /\ \A s \in SessionIds :
       LET m2 == connect_user(manager, str(s), now)
       IN /\ Others(manager.active_connections, m2.active_connections, str(s))
          /\ m2.active_connections[str(s)] = [last_heartbeat |-> now]
          /\ m2.agent_connections = manager.agent_connections
          /\ Pairs(m2) = Pairs(manager)
  /\ \A a \in Agents :
       LET m2 == connect_agent(manager, a, now)
       IN /\ Others(manager.agent_connections, m2.agent_connections, a)
          /\ m2.agent_connections[a] = [last_heartbeat |-> now]
          /\ m2.active_connections = manager.active_connections
          /\ Pairs(m2) = Pairs(manager)

Reconnected ==
  /\ ~Exists(2) /\ UserRegistered(manager, 2)
  /\ manager.active_connections[str(2)].last_heartbeat = now /\ now > 0
  /\ \E a \in Agents : AgentRegistered(manager, a)

IsFailure(r) == r.success = "false" \/ (r.success = "absent" /\ r.error)

DocumentStep ==
  \/ \E doc_type \in DocTypes : \E r \in OcrResults :
       CustomerDocumentCaptured(1, doc_type, r)
  \/ \E r \in DigilockerResults : CustomerVerifyDigilocker(1, r)
  \/ CustomerResultUser(1) \/ CustomerResultAgent(1)

(* C30: a failure result of the OCR or of the DigiLocker verification is   *)
(* sent to the customer as a result message with success = false, and a    *)
(* document result also to the assigned agent; the handling changes no     *)
(* status and no assignment, and the customer's handler reads on.          *)
FailureIsReported ==
  [][/\ CustomerResultUser(1) /\ IsFailure(user[1].result)
          => Result(UserTask(1), ResultType(user[1].msg), 1, FALSE) \in outbox'
     /\ CustomerResultAgent(1) /\ IsFailure(user[1].result)
          => \A a \in Agents :
               OwnsSession(manager, a, 1)
                 => Result(AgentTask(a), "document_verification_result", 1, FALSE)
                      \in outbox'
     /\ CustomerResultAgent(1) => user'[1] = UserRecv
     /\ DocumentStep
          => UNCHANGED vkyc_sessions /\ Pairs(manager') = Pairs(manager)]_vars

(* C31: for every assignment pair (a, s) the agent a has an entry in        *)
(* agent_connections and the session s has an entry in active_connections:  *)
(* no assignment exists for an evicted agent or for a session whose         *)
(* customer is not connected.                                               *)
PairedAreConnected ==
  \A a \in DOMAIN manager.agent_sessions :
    /\ AgentRegistered(manager, a)
    /\ UserRegistered(manager, manager.agent_sessions[a])

(* C32: a session whose status is agent_joined or in_progress has an        *)
(* assigned agent; after its agent has disconnected the session is not left *)
(* in_progress without an assignment.                                       *)
ServedHasAgent ==
  /\ [](Status(1) \in {"agent_joined", "in_progress"}
          => 1 \in DOMAIN manager.session_agents)
  /\ [][\A a \in Agents :
          (/\ AgentCleanup(a) /\ OwnsSession(manager, a, 1)
           /\ Status(1) = "in_progress")
            => \/ Status(1)' # "in_progress"
               \/ 1 \in DOMAIN manager'.session_agents
               \/ 1 \in manager'.waiting_sessions]_vars

(* C33: once a session's status is completed it never changes again,       *)
(* whatever the agents, the timers or the customer send afterwards.        *)
CompletedIsFinal ==
  [][Status(1) = "completed" => Status(1)' = "completed"]_vars

(* C34: when a second connection has registered under a session id, the    *)
(* end of the first connection's handler removes neither the second        *)
(* connection's registry entry, nor its recorder, nor the assignment.      *)
SupersededLeavesEntry ==
  [][SupersededCleanup(1)
       => /\ UserRegistered(manager', 1)
          /\ str(1) \in manager'.recordings
          /\ Pairs(manager') = Pairs(manager)]_vars

(* C35: a connection attempt that is rejected because its session id is    *)
(* unknown leaves no entry for that key in active_connections or           *)
(* recordings once the handler has returned.                               *)
RejectedLeavesNothing ==
  [][\A s \in SessionIds :
       CustomerConnect(s) /\ ~Exists(s)
         => /\ ~UserRegistered(manager', s)
            /\ str(s) \notin manager'.recordings]_vars

(* C36: the sweep removes only connections that are stale at the moment of *)
(* removal: a key judged stale by the scan whose heartbeat was refreshed,  *)
(* or which was registered again, before the sweep's disconnect for it     *)
(* runs is not evicted.                                                    *)
SweepEvictsOnlyStale ==
  [][SweepDisconnect
       => /\ \A k \in sweep.stale_users \cap DOMAIN manager.active_connections :
               k \in StaleUsers(manager, now)
          /\ \A a \in sweep.stale_agents \cap DOMAIN manager.agent_connections :
               a \in StaleAgents(manager, now)]_vars

TimerPending(s) ==
  \E a \in Agents : agent[a].msg = "accept_session" /\ agent[a].sid = s

(* C37: a session whose status is waiting_for_agent or in_progress, once   *)
(* the handlers that made it so have finished, has an expiry timer         *)
(* outstanding, so that it cannot stay in that status forever.             *)
ActiveHasTimer ==
  Status(1) \in {"waiting_for_agent", "in_progress"} /\ user[1].pc = "recv"
    => TimersInFlight(1) > 0 \/ TimerPending(1)

(* C38: a session that became in_progress through accept_session is not    *)
(* set to expired before 300 seconds have passed since that accept: when a *)
(* timer expires a session in_progress, the timer that accept started is   *)
(* not still sleeping with its wake-up time ahead.                         *)
CallLastsItsTime ==
  [][TimerFire(1) /\ Status(1) = "in_progress" /\ Status(1)' = "expired"
       => \A i \in 1..Len(timer'[1].sleeping) : timer'[1].sleeping[i] <= now]_vars

(* C39: decline_session for session S changes state only when S is         *)
(* waiting_for_agent and has no assigned agent: an agent never changes the  *)
(* status of a session assigned to another agent, and no session is         *)
(* declined while it holds an assignment pair.                              *)
DeclineOnlyWaiting ==
  /\ [](Status(1) = "declined" => 1 \notin DOMAIN manager.session_agents)
  /\ [][\A a \in Agents :
          (/\ AgentDecline(a, 1)
           /\ \/ Status(1) # "waiting_for_agent"
              \/ 1 \in DOMAIN manager.session_agents)
            => UNCHANGED <<vkyc_sessions>> /\ Pairs(manager') = Pairs(manager)]_vars

====
